---- MODULE Spec2Model ----
(***************************************************************************)
(* A model of the tile-map game of src/src: the per-frame player systems   *)
(* of movement.rs (input, integration, collision, pickup, portal), the map *)
(* materialization systems of tiled_map.rs with the setup systems of       *)
(* main.rs, and the coordinate mapping of tiled_map.rs (impl Point).       *)
(*                                                                         *)
(* Numbers.  Positions and sizes are f32 world units in the code; the      *)
(* model keeps them as integers and draws every size from even values, so  *)
(* that size / 2.0 and size * 1.5 are exact.  time.delta_seconds() is any  *)
(* non-negative real, so speed * delta is any value of the sign of speed;  *)
(* the integration step draws that product (its magnitude) directly.       *)
(***************************************************************************)
EXTENDS Integers, Sequences, FiniteSets, TLC

VARIABLES
    world,      \* the materialized entities other than the player, and the input domain
    players,    \* the entities carrying the Player component, in query order
    pc,         \* the system of the chain that runs next
    frame,      \* number of completed frames
    start,      \* history: `players` at the start of the current frame
    prev,      \* history: `players` before the system that ran last
    inp,        \* history: the inputs the systems of the current frame have read
    portalLog,  \* what check_portal printed in its last run, one entry per portal visited
    ran,        \* history: the systems that have run in the current frame, in order
    pickLog,    \* history: per run of a pickup system, what overlapped and the slot before and after
    load,       \* the map asset, the map entity and what the map systems have spawned
    coord       \* the arguments and results of the coordinate mapping

vars == <<world, players, pc, frame, start, prev, inp, portalLog, ran, pickLog, load, coord>>

(***************************************************************************)
(* Program constants.                                                      *)
(***************************************************************************)
PLAYER_SPEED == 125

COAST_DECREMENT == 2

SCALE == 3

(***************************************************************************)
(* Bounds of the model.                                                    *)
(***************************************************************************)
MaxFrames == 1

MaxMove == 2

Reach == 7

RevisitFrames == 3

MaxMap == 3

MaxLoadFrames == 3
\* frames of coasting: enough to run down from PLAYER_SPEED and stop
CoastFrames == 65
\* the number of cells of the largest tile layer
MaxLayer == 4

NONE == "None"

Directions == {"Stopped", "Up", "Down", "Left", "Right"}

KeyCodes == {"Up", "Down", "Left", "Right"}

Potions == {"Red", "Green", "Blue"}

Weapons == {"Sword", "Hammer", "Axe"}

(***************************************************************************)
(* bevy::sprite::collide_aabb::collide (bevy 0.12), the library call every  *)
(* overlap test in movement.rs goes through.  a and b are boxes given by    *)
(* centre and size; the result is NONE when they do not intersect (the      *)
(* comparisons are strict: touching boxes do not collide), and otherwise    *)
(* the side of b that a struck: the axis of least penetration wins, the x   *)
(* axis on a tie, "Inside" when neither axis has a one-sided overlap.       *)
(***************************************************************************)
Collide(a, b) ==
    LET a_min_x == a.x - a.w \div 2
        a_max_x == a.x + a.w \div 2
        a_min_y == a.y - a.h \div 2
        a_max_y == a.y + a.h \div 2
        b_min_x == b.x - b.w \div 2
        b_max_x == b.x + b.w \div 2
        b_min_y == b.y - b.h \div 2
        b_max_y == b.y + b.h \div 2
        Abs(n) == IF n < 0 THEN -n ELSE n
        \* depth "inf" stands for f32::INFINITY
        xc == IF a_min_x < b_min_x /\ a_max_x > b_min_x /\ a_max_x < b_max_x
                THEN [side |-> "Left", inf |-> FALSE, depth |-> Abs(b_min_x - a_max_x)]
              ELSE IF a_min_x > b_min_x /\ a_min_x < b_max_x /\ a_max_x > b_max_x
                THEN [side |-> "Right", inf |-> FALSE, depth |-> Abs(a_min_x - b_max_x)]
              ELSE [side |-> "Inside", inf |-> TRUE, depth |-> 0]
        yc == IF a_min_y < b_min_y /\ a_max_y > b_min_y /\ a_max_y < b_max_y
                THEN [side |-> "Bottom", inf |-> FALSE, depth |-> Abs(b_min_y - a_max_y)]
              ELSE IF a_min_y > b_min_y /\ a_min_y < b_max_y /\ a_max_y > b_max_y
                THEN [side |-> "Top", inf |-> FALSE, depth |-> Abs(a_min_y - b_max_y)]
              ELSE [side |-> "Inside", inf |-> TRUE, depth |-> 0]
        y_less == /\ ~yc.inf
                  /\ (xc.inf \/ yc.depth < xc.depth)
    IN  IF a_min_x < b_max_x /\ a_max_x > b_min_x /\ a_min_y < b_max_y /\ a_max_y > b_min_y
          THEN IF y_less THEN yc.side ELSE xc.side
          ELSE NONE

(***************************************************************************)
(* Moveable::new and Inventory::new: the components setup_player inserts.  *)
(***************************************************************************)
NewPlayer(x, y, w, h) ==
    [x |-> x, y |-> y, w |-> w, h |-> h,
     speed |-> 0, direction |-> "Stopped",
     potion |-> NONE, weapon |-> NONE]

(***************************************************************************)
(* Query::get_single_mut: a system acts on the player only when exactly    *)
(* one entity matches (Len(ps) = 1 below), and returns at once otherwise.  *)
(***************************************************************************)
(***************************************************************************)
(* input_system_keyboard                                                   *)
(***************************************************************************)
\* mutant: the four key tests without their returns, so a later test
\* overwrites an earlier one
KeyboardBodyFallThrough(p, pressed) ==
    IF "Right" \in pressed
      THEN [p EXCEPT !.direction = "Right", !.speed = PLAYER_SPEED]
    ELSE IF "Left" \in pressed
      THEN [p EXCEPT !.direction = "Left", !.speed = PLAYER_SPEED]
    ELSE IF "Down" \in pressed
      THEN [p EXCEPT !.direction = "Down", !.speed = PLAYER_SPEED]
    ELSE IF "Up" \in pressed
      THEN [p EXCEPT !.direction = "Up", !.speed = PLAYER_SPEED]
    ELSE IF p.speed > 0
      THEN [p EXCEPT !.speed = @ - COAST_DECREMENT]
    ELSE [p EXCEPT !.direction = "Stopped", !.speed = 0]

\* mutant: the instant-stop policy, no coasting
KeyboardBodyInstantStop(p, pressed) ==
    IF "Up" \in pressed
      THEN [p EXCEPT !.direction = "Up", !.speed = PLAYER_SPEED]
    ELSE IF "Down" \in pressed
      THEN [p EXCEPT !.direction = "Down", !.speed = PLAYER_SPEED]
    ELSE IF "Left" \in pressed
      THEN [p EXCEPT !.direction = "Left", !.speed = PLAYER_SPEED]
    ELSE IF "Right" \in pressed
      THEN [p EXCEPT !.direction = "Right", !.speed = PLAYER_SPEED]
    ELSE [p EXCEPT !.direction = "Stopped", !.speed = 0]

KeyboardBody(p, pressed) ==
    IF "Up" \in pressed
      THEN [p EXCEPT !.direction = "Up", !.speed = PLAYER_SPEED]
    ELSE IF "Down" \in pressed
      THEN [p EXCEPT !.direction = "Down", !.speed = PLAYER_SPEED]
    ELSE IF "Left" \in pressed
      THEN [p EXCEPT !.direction = "Left", !.speed = PLAYER_SPEED]
    ELSE IF "Right" \in pressed
      THEN [p EXCEPT !.direction = "Right", !.speed = PLAYER_SPEED]
    \* movement coasting
    ELSE IF p.speed > 0
      THEN [p EXCEPT !.speed = @ - COAST_DECREMENT]
    ELSE [p EXCEPT !.direction = "Stopped", !.speed = 0]

input_system_keyboard(ps, pressed) ==
    IF Len(ps) = 1 THEN <<KeyboardBody(ps[1], pressed)>> ELSE ps

(***************************************************************************)
(* input_system_touch: every finger snaps the first Player entity to the   *)
(* finger's position (iter_mut().next(), not get_single).                  *)
(***************************************************************************)
RECURSIVE TouchLoop(_, _, _)
TouchLoop(ps, fingers, i) ==
    IF i > Len(fingers) THEN ps
    ELSE TouchLoop(
           IF Len(ps) >= 1
             THEN [ps EXCEPT ![1] = [@ EXCEPT !.x = fingers[i][1], !.y = fingers[i][2]]]
             ELSE ps,
           fingers, i + 1)

input_system_touch(ps, fingers) ==
    TouchLoop(ps, fingers, 1)

(***************************************************************************)
(* update_player_position.  amount is speed * time.delta_seconds().        *)
(***************************************************************************)
MovementAmounts(speed, magnitudes) ==
    IF speed = 0 THEN {0}
    ELSE IF speed > 0 THEN magnitudes
    ELSE {-m : m \in magnitudes}

\* mutant: Down adds to y as Up does
UpdateBodyDownAdds(p, amount) ==
    IF p.direction = "Stopped" THEN p
    ELSE CASE p.direction = "Up"    -> [p EXCEPT !.y = @ + amount]
           [] p.direction = "Down"  -> [p EXCEPT !.y = @ + amount]
           [] p.direction = "Left"  -> [p EXCEPT !.x = @ - amount]
           [] p.direction = "Right" -> [p EXCEPT !.x = @ + amount]
           [] OTHER -> p

UpdateBody(p, amount) ==
    IF p.direction = "Stopped" THEN p
    ELSE CASE p.direction = "Up"    -> [p EXCEPT !.y = @ + amount]
           [] p.direction = "Down"  -> [p EXCEPT !.y = @ - amount]
           [] p.direction = "Left"  -> [p EXCEPT !.x = @ - amount]
           [] p.direction = "Right" -> [p EXCEPT !.x = @ + amount]
           [] OTHER -> p

\* mutant: the guard on the player query inverted, so the body never runs
update_player_position_never(ps, amount) == ps

update_player_position(ps, amount) ==
    IF Len(ps) = 1 THEN <<UpdateBody(ps[1], amount)>> ELSE ps

(***************************************************************************)
(* check_collideable: one footprint of the loop, then the loop.            *)
(***************************************************************************)
\* mutant: the speed is reset but the player is left where the step put it
ResolveCollideableStopOnly(p, c) ==
    LET collision == Collide(p, c)
    IN  IF collision # NONE /\ <<p.direction, collision>> \in
              {<<"Left", "Right">>, <<"Right", "Left">>, <<"Up", "Bottom">>, <<"Down", "Top">>}
          THEN [p EXCEPT !.speed = 0]
          ELSE p

\* mutant: the player's centre, not its leading edge, is snapped to the footprint's edge
ResolveCollideableHalfSnap(p, c) ==
    LET collision == Collide(p, c)
    IN  IF collision = NONE THEN p
        ELSE IF p.direction = "Left" /\ collision = "Right"
          THEN [p EXCEPT !.x = c.x + c.w \div 2, !.speed = 0]
        ELSE IF p.direction = "Right" /\ collision = "Left"
          THEN [p EXCEPT !.x = c.x - c.w \div 2, !.speed = 0]
        ELSE IF p.direction = "Up" /\ collision = "Bottom"
          THEN [p EXCEPT !.y = c.y - c.h \div 2, !.speed = 0]
        ELSE IF p.direction = "Down" /\ collision = "Top"
          THEN [p EXCEPT !.y = c.y + c.h \div 2, !.speed = 0]
        ELSE p

\* mutant: any overlap stops the player, whatever side was struck
ResolveCollideableAnySide(p, c) ==
    LET collision == Collide(p, c)
    IN  IF collision = NONE THEN p
        ELSE IF p.direction = "Left" /\ collision = "Right"
          THEN [p EXCEPT !.x = c.x + c.w, !.speed = 0]
        ELSE IF p.direction = "Right" /\ collision = "Left"
          THEN [p EXCEPT !.x = c.x - c.w, !.speed = 0]
        ELSE IF p.direction = "Up" /\ collision = "Bottom"
          THEN [p EXCEPT !.y = c.y - c.h, !.speed = 0]
        ELSE IF p.direction = "Down" /\ collision = "Top"
          THEN [p EXCEPT !.y = c.y + c.h, !.speed = 0]
        ELSE [p EXCEPT !.speed = 0]

\* mutant: only the horizontal pairs block
ResolveCollideableHorizontalOnly(p, c) ==
    LET collision == Collide(p, c)
    IN  IF collision = NONE THEN p
        ELSE IF p.direction = "Left" /\ collision = "Right"
          THEN [p EXCEPT !.x = c.x + c.w, !.speed = 0]
        ELSE IF p.direction = "Right" /\ collision = "Left"
          THEN [p EXCEPT !.x = c.x - c.w, !.speed = 0]
        ELSE p

ResolveCollideable(p, c) ==
    LET collision == Collide(p, c)
    IN  IF collision = NONE THEN p
        \* Moving left, collided with right side of wall
        ELSE IF p.direction = "Left" /\ collision = "Right"
          THEN [p EXCEPT !.x = c.x + c.w, !.speed = 0]
        \* Moving right, collided with left side of wall
        ELSE IF p.direction = "Right" /\ collision = "Left"
          THEN [p EXCEPT !.x = c.x - c.w, !.speed = 0]
        \* Moving up, collided with bottom side of wall
        ELSE IF p.direction = "Up" /\ collision = "Bottom"
          THEN [p EXCEPT !.y = c.y - c.h, !.speed = 0]
        \* Moving down, collided with top side of wall
        ELSE IF p.direction = "Down" /\ collision = "Top"
          THEN [p EXCEPT !.y = c.y + c.h, !.speed = 0]
        ELSE p

RECURSIVE CollideableLoop(_, _, _)
CollideableLoop(p, cs, i) ==
    IF i > Len(cs) THEN p
    ELSE CollideableLoop(ResolveCollideable(p, cs[i]), cs, i + 1)

check_collideable(ps, cs) ==
    IF Len(ps) = 1 THEN <<CollideableLoop(ps[1], cs, 1)>> ELSE ps

(***************************************************************************)
(* check_collectable_potion and check_collectable_weapon.                  *)
(***************************************************************************)
\* Variants of the potion pickup: one that fills an empty slot only, and a
\* loop that stops at the first collectable it takes.
PickPotionIfEmpty(p, c) ==
    IF Collide(p, c) # NONE /\ p.potion = NONE THEN [p EXCEPT !.potion = c.kind] ELSE p

RECURSIVE PotionLoopFirstTaken(_, _, _)
PotionLoopFirstTaken(p, cs, i) ==
    IF i > Len(cs) THEN p
    ELSE IF Collide(p, cs[i]) # NONE /\ p.potion # cs[i].kind
      THEN [p EXCEPT !.potion = cs[i].kind]
    ELSE PotionLoopFirstTaken(p, cs, i + 1)

PickPotion(p, c) ==
    IF Collide(p, c) # NONE
      THEN IF p.potion # c.kind THEN [p EXCEPT !.potion = c.kind] ELSE p
      ELSE p

RECURSIVE PotionLoop(_, _, _)
PotionLoop(p, cs, i) ==
    IF i > Len(cs) THEN p
    ELSE PotionLoop(PickPotion(p, cs[i]), cs, i + 1)

check_collectable_potion(ps, cs) ==
    IF Len(ps) = 1 THEN <<PotionLoop(ps[1], cs, 1)>> ELSE ps

PickWeapon(p, c) ==
    IF Collide(p, c) # NONE
      THEN IF p.weapon # c.kind THEN [p EXCEPT !.weapon = c.kind] ELSE p
      ELSE p

RECURSIVE WeaponLoop(_, _, _)
WeaponLoop(p, cs, i) ==
    IF i > Len(cs) THEN p
    ELSE WeaponLoop(PickWeapon(p, cs[i]), cs, i + 1)

check_collectable_weapon(ps, cs) ==
    IF Len(ps) = 1 THEN <<WeaponLoop(ps[1], cs, 1)>> ELSE ps

(***************************************************************************)
(* check_portal.  The query takes the Portal entities that carry an        *)
(* Inventory.  The gate, the traversal of one portal, and the loop, which  *)
(* returns from the system at the first rejection.  The loop yields the    *)
(* player and, per portal visited, what was printed: "pass" (You may       *)
(* pass), "halt" (HALT!) or "miss" (no overlap, nothing printed).          *)
(***************************************************************************)
PortalQuery(portals) ==
    SelectSeq(portals, LAMBDA q : q.hasInventory)

PortalGate(p, q) ==
    /\ p.weapon # NONE
    /\ p.potion # NONE
    /\ q.weapon # NONE
    /\ q.potion # NONE
    /\ p.weapon = q.weapon
    /\ p.potion = q.potion

\* mutant: passing a portal uses up the potion that opened it
PortalTraverseConsumes(p, q, collision) ==
    IF collision = "Top"
      THEN IF p.direction = "Down"
             THEN [p EXCEPT !.y = q.y - (q.h - (p.h * 3) \div 2),
                            !.speed = PLAYER_SPEED,
                            !.potion = NONE]
             ELSE p
    ELSE IF collision = "Bottom"
      THEN IF p.direction = "Up"
             THEN [p EXCEPT !.y = q.y + (q.h - (p.h * 3) \div 2),
                            !.speed = PLAYER_SPEED,
                            !.potion = NONE]
             ELSE p
    ELSE p

PortalTraverse(p, q, collision) ==
    IF collision = "Top"
      THEN IF p.direction = "Down"
             THEN [p EXCEPT !.y = q.y - (q.h - (p.h * 3) \div 2),
                            !.speed = PLAYER_SPEED]
             ELSE p
    ELSE IF collision = "Bottom"
      THEN IF p.direction = "Up"
             THEN [p EXCEPT !.y = q.y + (q.h - (p.h * 3) \div 2),
                            !.speed = PLAYER_SPEED]
             ELSE p
    ELSE p

\* mutant: a rejected player is stopped at the gate
RECURSIVE PortalLoopHaltStops(_, _, _, _)
PortalLoopHaltStops(p, qs, i, log) ==
    IF i > Len(qs) THEN [player |-> p, log |-> log]
    ELSE LET collision == Collide(p, qs[i])
         IN  IF collision = NONE
               THEN PortalLoopHaltStops(p, qs, i + 1, Append(log, "miss"))
             ELSE IF PortalGate(p, qs[i])
               THEN PortalLoopHaltStops(PortalTraverse(p, qs[i], collision), qs, i + 1,
                                        Append(log, "pass"))
             ELSE [player |-> [p EXCEPT !.speed = 0], log |-> Append(log, "halt")]

RECURSIVE PortalLoop(_, _, _, _)
PortalLoop(p, qs, i, log) ==
    IF i > Len(qs) THEN [player |-> p, log |-> log]
    ELSE LET collision == Collide(p, qs[i])
         IN  IF collision = NONE
               THEN PortalLoop(p, qs, i + 1, Append(log, "miss"))
             ELSE IF PortalGate(p, qs[i])
               THEN PortalLoop(PortalTraverse(p, qs[i], collision), qs, i + 1,
                               Append(log, "pass"))
             ELSE [player |-> p, log |-> Append(log, "halt")]

check_portal(ps, portals) ==
    IF Len(ps) = 1
      THEN LET r == PortalLoop(ps[1], PortalQuery(portals), 1, <<>>)
           IN  [players |-> <<r.player>>, log |-> r.log]
      ELSE [players |-> ps, log |-> <<>>]

(***************************************************************************)
(* MovementPlugin::build: the seven systems, chained.                      *)
(***************************************************************************)
\* A variant of the chain that resolves collisions before it integrates.
ChainCollideBeforeMove ==
    << "input_system_keyboard",
       "input_system_touch",
       "check_collideable",
       "update_player_position",
       "check_collectable_potion",
       "check_collectable_weapon",
       "check_portal" >>

Chain ==
    << "input_system_keyboard",
       "input_system_touch",
       "update_player_position",
       "check_collideable",
       "check_collectable_potion",
       "check_collectable_weapon",
       "check_portal" >>

ChainIndex(name) ==
    CHOOSE i \in 1..Len(Chain) : Chain[i] = name

ChainAfter(name) ==
    IF ChainIndex(name) = Len(Chain) THEN Chain[1] ELSE Chain[ChainIndex(name) + 1]

(***************************************************************************)
(* TilemapTileSize::scaled, and the boxes of the small worlds: every       *)
(* sprite entity of a map with one 2x2-pixel tileset is SCALE times the    *)
(* tile in size.                                                           *)
(***************************************************************************)
scaled(size, scale) ==
    [width |-> size.width * scale, height |-> size.height * scale]

SmallTile == [width |-> 2, height |-> 2]

Box(x, y, w, h) == [x |-> x, y |-> y, w |-> w, h |-> h]

TileBox(x, y) ==
    Box(x, y, scaled(SmallTile, SCALE).width, scaled(SmallTile, SCALE).height)

Collectable(x, y, kind) ==
    [x |-> x, y |-> y, w |-> TileBox(x, y).w, h |-> TileBox(x, y).h, kind |-> kind]

SingleKeys == {{}} \cup {{k} : k \in KeyCodes}

NoFingers == {<<>>}

EmptyWorld ==
    [footprints |-> <<>>, potions |-> <<>>, weapons |-> <<>>, portals |-> <<>>,
     keySets |-> SingleKeys, fingerSeqs |-> NoFingers, magnitudes |-> 0..MaxMove,
     frames |-> MaxFrames, keyFrames |-> MaxFrames, arrivals |-> <<>>]

(***************************************************************************)
(* impl Point: the coordinate mapping.  tilemap_size is the map's size in  *)
(* tiles, tile_size the tileset's tile size in pixels; the divisions are   *)
(* exact for even tile sizes.                                              *)
(***************************************************************************)
\* A variant of from_tiled_collision without the half-tile terms.
from_tiled_collision_corner(tilemap_size, tile_size, scale, x, y) ==
    [x |-> (x * scaled(tile_size, scale).width)
             - ((tilemap_size.width * scaled(tile_size, scale).width) \div 2),
     y |-> -((y * scaled(tile_size, scale).height)
               - ((tilemap_size.height * scaled(tile_size, scale).height) \div 2))]

from_tiled_collision(tilemap_size, tile_size, scale, x, y) ==
    [x |-> (x * scaled(tile_size, scale).width)
             - ((tilemap_size.width * scaled(tile_size, scale).width) \div 2)
             + (scaled(tile_size, scale).width \div 2),
     y |-> -((y * scaled(tile_size, scale).height)
               - ((tilemap_size.height * scaled(tile_size, scale).height) \div 2))
             - (scaled(tile_size, scale).height \div 2)]

get_map_origin(tilemap_size, tile_size, scale) ==
    [x |-> -((tilemap_size.width * scaled(tile_size, scale).width) \div 2)
             + (scaled(tile_size, scale).width \div 2),
     y |-> -((tilemap_size.height * scaled(tile_size, scale).height) \div 2)
             + (scaled(tile_size, scale).height \div 2)]

from_tiled_tile(tilemap_size, x, y) ==
    [x |-> x, y |-> tilemap_size.height - 1 - y]

\* mutant: the half tile of get_map_origin added to the object's corner
from_tiled_object_centre(tilemap_size, tile_size, scale, x, y) ==
    [x |-> (x * scale) - ((tilemap_size.width * scaled(tile_size, scale).width) \div 2)
             + scaled(tile_size, scale).width \div 2,
     y |-> -((y * scale) - ((tilemap_size.height * scaled(tile_size, scale).height) \div 2))
             + scaled(tile_size, scale).height \div 2]

from_tiled_object(tilemap_size, tile_size, scale, x, y) ==
    [x |-> (x * scale) - ((tilemap_size.width * scaled(tile_size, scale).width) \div 2),
     y |-> -((y * scale) - ((tilemap_size.height * scaled(tile_size, scale).height) \div 2))]

(***************************************************************************)
(* Scenario family "wall": one collision footprint at the origin, the      *)
(* player (same tileset, so same size) anywhere within Reach of it.        *)
(***************************************************************************)
WallWorld == [EmptyWorld EXCEPT !.footprints = <<TileBox(0, 0)>>]

WallScenarios ==
    {[world |-> WallWorld,
      player |-> NewPlayer(x, y, TileBox(x, y).w, TileBox(x, y).h)] :
        x \in -Reach..Reach, y \in -Reach..Reach}

(***************************************************************************)
(* Scenario family "mixed": a map of one wall cell and two tilesets.  The  *)
(* first tileset (2x2 pixels) has no image, the second (4x4) has one, so   *)
(* the player sprite is spawned once, with the second tileset's size,      *)
(* while process_map_collideables spawns one footprint per tileset, each   *)
(* with that tileset's size; both are centred on the only cell.            *)
(***************************************************************************)
LargeTile == [width |-> 4, height |-> 4]

MixedWorld ==
    [EmptyWorld EXCEPT !.footprints =
        << TileBox(0, 0),
           Box(0, 0, scaled(LargeTile, SCALE).width, scaled(LargeTile, SCALE).height) >>]

MixedScenarios ==
    {[world |-> MixedWorld,
      player |-> NewPlayer(x, y, scaled(LargeTile, SCALE).width,
                           scaled(LargeTile, SCALE).height)] :
        x \in -(Reach + 4)..(Reach + 4), y \in {0, Reach}}

(***************************************************************************)
(* Scenario family "corridor": a 5x5 map of 16x16-pixel tiles whose cell   *)
(* (2,2) is a wall with a full-tile collision rectangle; the player starts *)
(* at cell (0,2): centred on the cell, or placed as the object whose       *)
(* document anchor is the cell's top-left or bottom-left corner.  A frame  *)
(* displaces the player by 100 or by 125 = PLAYER_SPEED * 1 s.             *)
(***************************************************************************)
CorridorMap == [width |-> 5, height |-> 5]

CorridorTile == [width |-> 16, height |-> 16]

CorridorWall ==
    LET at == from_tiled_collision(CorridorMap, CorridorTile, SCALE, 2, 2)
    IN  Box(at.x, at.y, scaled(CorridorTile, SCALE).width, scaled(CorridorTile, SCALE).height)

CorridorWorld ==
    [EmptyWorld EXCEPT !.footprints = <<CorridorWall>>, !.magnitudes = {100, 125}]

CorridorStarts ==
    { from_tiled_collision(CorridorMap, CorridorTile, SCALE, 0, 2),
      from_tiled_object(CorridorMap, CorridorTile, SCALE, 0, 2 * CorridorTile.height),
      from_tiled_object(CorridorMap, CorridorTile, SCALE, 0, 3 * CorridorTile.height) }

CorridorScenarios ==
    {[world |-> CorridorWorld,
      player |-> NewPlayer(at.x, at.y, scaled(CorridorTile, SCALE).width,
                           scaled(CorridorTile, SCALE).height)] :
        at \in CorridorStarts}

(***************************************************************************)
(* Scenario family "items": two potions and two weapons, each pair side by *)
(* side so that a player can overlap none, one or both of a category; the  *)
(* weapons are spawned in the other order.  The player starts beside,      *)
(* on, or between them, with an inventory left by earlier frames, and      *)
(* walks two units per frame for RevisitFrames frames.                     *)
(***************************************************************************)
ItemsWorld ==
    [EmptyWorld EXCEPT
        !.potions = << Collectable(0, 0, "Red"), Collectable(4, 0, "Green") >>,
        !.weapons = << Collectable(4, 0, "Axe"), Collectable(0, 0, "Sword") >>,
        !.magnitudes = {2},
        !.frames = RevisitFrames,
        !.keyFrames = RevisitFrames]

ItemsStarts == {-6, 0, 2}

ItemsInventories ==
    { [potion |-> NONE, weapon |-> NONE],
      [potion |-> "Blue", weapon |-> "Hammer"] }

ItemsScenarios ==
    {[world |-> ItemsWorld,
      player |-> [NewPlayer(x, 0, TileBox(x, 0).w, TileBox(x, 0).h)
                    EXCEPT !.potion = inv.potion, !.weapon = inv.weapon]] :
        x \in ItemsStarts, inv \in ItemsInventories}

(***************************************************************************)
(* Scenario family "gate": portals as setup_portals leaves them.  A shape  *)
(* of class Portal becomes a Portal entity of SCALE times the rectangle's  *)
(* size; it gets an Inventory only when the shape has a name, holding the  *)
(* items the name lists.  GateA is as large as the player, GateB stands    *)
(* beside it and is four players tall.  The player holds what the gates    *)
(* ask for, or part of it, or something else, and starts around them.      *)
(***************************************************************************)
PortalShape(x, y, width, height, named, potion, weapon) ==
    [x |-> x, y |-> y,
     w |-> scaled([width |-> width, height |-> height], SCALE).width,
     h |-> scaled([width |-> width, height |-> height], SCALE).height,
     hasInventory |-> named, potion |-> potion, weapon |-> weapon]

GateA == PortalShape(0, 0, 2, 2, TRUE, "Red", "Sword")

GateB == PortalShape(6, 0, 2, 8, TRUE, "Green", "Sword")

GatePotionOnly == PortalShape(0, 0, 2, 2, TRUE, "Red", NONE)

GateUnnamed == PortalShape(0, 0, 2, 2, FALSE, NONE, NONE)

GateLayouts ==
    { <<GateA>>, <<GateB>>, <<GateA, GateB>>, <<GatePotionOnly>>, <<GateUnnamed, GateA>> }

GateInventories ==
    { [potion |-> "Red", weapon |-> "Sword"],
      [potion |-> "Green", weapon |-> "Sword"],
      [potion |-> "Red", weapon |-> NONE],
      [potion |-> "Red", weapon |-> "Axe"],
      [potion |-> NONE, weapon |-> NONE] }

GateStartsX == {-5, 0, 3, 5, 11}

GateStartsY == {-14, -5, 0, 5, 14}

GateScenarios ==
    {[world |-> [EmptyWorld EXCEPT !.portals = layout, !.magnitudes = {0, 2}],
      player |-> [NewPlayer(x, y, TileBox(x, y).w, TileBox(x, y).h)
                    EXCEPT !.potion = inv.potion, !.weapon = inv.weapon]] :
        layout \in GateLayouts, inv \in GateInventories,
        x \in GateStartsX, y \in GateStartsY}

(***************************************************************************)
(* Scenario family "arena": a wall, a Red potion and a Sword above it, and *)
(* a gate asking for both whose top edge rises above the wall's.  Any set  *)
(* of arrow keys may be held and up to two fingers may touch the screen,   *)
(* so every system of the chain has something to do in one frame.          *)
(***************************************************************************)
ArenaWorld ==
    [EmptyWorld EXCEPT
        !.footprints = << TileBox(0, 0) >>,
        !.potions = << Collectable(0, 10, "Red") >>,
        !.weapons = << Collectable(0, 10, "Sword") >>,
        !.portals = << PortalShape(0, -1, 2, 4, TRUE, "Red", "Sword") >>,
        !.keySets = SUBSET KeyCodes,
        !.fingerSeqs = { <<>>, << <<0, 8>> >>, << <<5, 5>>, <<0, 8>> >> },
        !.magnitudes = {0, 4}]

ArenaScenarios ==
    {[world |-> ArenaWorld,
      player |-> NewPlayer(at[1], at[2], TileBox(0, 0).w, TileBox(0, 0).h)] :
        at \in { <<-20, -20>>, <<0, 8>> }}

(***************************************************************************)
(* Scenario family "absent": the arena in the frames around setup_player.  *)
(* The movement systems run in Update and setup_player in PostUpdate, so   *)
(* the first frame of a map finds no Player; setup_player then marks every *)
(* sprite of class Player, one per tileset with an image: one Player, or   *)
(* two on a map with two such tilesets.                                    *)
(***************************************************************************)
AbsentStarts == { NewPlayer(0, 8, TileBox(0, 0).w, TileBox(0, 0).h) }

AbsentScenarios ==
    {[world |-> [ArenaWorld EXCEPT
                    !.keySets = SingleKeys,
                    !.frames = MaxFrames + 1,
                    !.keyFrames = MaxFrames + 1,
                    !.arrivals = arrivals],
      player |-> arrivals[1]] :
        arrivals \in {<<p>> : p \in AbsentStarts} \cup {<<p, p>> : p \in AbsentStarts}}

Scenarios ==
    WallScenarios \cup MixedScenarios \cup CorridorScenarios \cup ItemsScenarios
        \cup GateScenarios \cup ArenaScenarios \cup AbsentScenarios

(***************************************************************************)
(* The frame loop of the player systems.                                   *)
(***************************************************************************)
NoLoad == [stage |-> "unused"]

NoCoord == [stage |-> "unused"]

NoInput == [keys |-> {}, fingers |-> <<>>, amount |-> 0]

NoPicks == [potion |-> <<>>, weapon |-> <<>>]

Picked(cs, before, after, slot) ==
    IF Len(before) = 1
      THEN <<[over |-> {i \in 1..Len(cs) : Collide(before[1], cs[i]) # NONE},
              before |-> before[1][slot],
              after |-> after[1][slot]]>>
      ELSE <<>>

Advance(sys) ==
    /\ pc = sys
    /\ frame < world.frames
    /\ pc' = ChainAfter(sys)
    /\ frame' = IF sys = Chain[Len(Chain)] THEN frame + 1 ELSE frame
    /\ start' = IF sys = Chain[1] THEN players ELSE start
    /\ prev' = players
    /\ ran' = IF sys = Chain[1] THEN <<sys>> ELSE Append(ran, sys)
    /\ UNCHANGED <<world, load, coord>>

InpBase(sys) == IF sys = Chain[1] THEN NoInput ELSE inp

\* the Player entities of a scenario when its first frame begins
Present(s) == IF s.world.arrivals = <<>> THEN <<s.player>> ELSE <<>>

InitFrom(s) ==
        /\ world = s.world
        /\ players = Present(s)
        /\ pc = Chain[1]
        /\ frame = 0
        /\ start = Present(s)
        /\ prev = Present(s)
        /\ inp = NoInput
        /\ portalLog = <<>>
        /\ ran = <<>>
        /\ pickLog = NoPicks
        /\ load = NoLoad
        /\ coord = NoCoord

Init == \E s \in Scenarios : InitFrom(s)

InputSystemKeyboard ==
    /\ Advance("input_system_keyboard")
    /\ \E pressed \in (IF frame < world.keyFrames THEN world.keySets ELSE {{}}) :
         /\ players' = input_system_keyboard(players, pressed)
         /\ inp' = [InpBase("input_system_keyboard") EXCEPT !.keys = pressed]
    /\ UNCHANGED <<portalLog, pickLog>>

InputSystemTouch ==
    /\ Advance("input_system_touch")
    /\ \E fingers \in world.fingerSeqs :
         /\ players' = input_system_touch(players, fingers)
         /\ inp' = [InpBase("input_system_touch") EXCEPT !.fingers = fingers]
    /\ UNCHANGED <<portalLog, pickLog>>

UpdatePlayerPosition ==
    /\ Advance("update_player_position")
    /\ \E amount \in MovementAmounts(IF Len(players) = 1 THEN players[1].speed ELSE 0,
                                     world.magnitudes) :
         /\ players' = update_player_position(players, amount)
         /\ inp' = [InpBase("update_player_position") EXCEPT !.amount = amount]
    /\ UNCHANGED <<portalLog, pickLog>>

CheckCollideable ==
    /\ Advance("check_collideable")
    /\ players' = check_collideable(players, world.footprints)
    /\ inp' = InpBase("check_collideable")
    /\ UNCHANGED <<portalLog, pickLog>>

CheckCollectablePotion ==
    /\ Advance("check_collectable_potion")
    /\ players' = check_collectable_potion(players, world.potions)
    /\ pickLog' = [pickLog EXCEPT !.potion =
                     @ \o Picked(world.potions, players,
                                 check_collectable_potion(players, world.potions), "potion")]
    /\ inp' = InpBase("check_collectable_potion")
    /\ UNCHANGED portalLog

CheckCollectableWeapon ==
    /\ Advance("check_collectable_weapon")
    /\ players' = check_collectable_weapon(players, world.weapons)
    /\ pickLog' = [pickLog EXCEPT !.weapon =
                     @ \o Picked(world.weapons, players,
                                 check_collectable_weapon(players, world.weapons), "weapon")]
    /\ inp' = InpBase("check_collectable_weapon")
    /\ UNCHANGED portalLog

CheckPortal ==
    /\ Advance("check_portal")
    /\ players' = check_portal(players, world.portals).players
    /\ portalLog' = check_portal(players, world.portals).log
    /\ inp' = InpBase("check_portal")
    /\ UNCHANGED pickLog

\* setup_player, at the end of a frame that had no Player: the sprites of
\* class Player get the Player, Inventory and Moveable components
PlayerSetUp ==
    /\ pc = Chain[1]
    /\ frame >= 1
    /\ frame < world.frames
    /\ players = <<>>
    /\ world.arrivals # <<>>
    /\ players' = world.arrivals
    /\ start' = world.arrivals
    /\ prev' = world.arrivals
    /\ ran' = <<>>
    /\ inp' = NoInput
    /\ UNCHANGED <<world, pc, frame, portalLog, pickLog, load, coord>>

\* the chain of MovementPlugin
Frame ==
    \/ InputSystemKeyboard
    \/ InputSystemTouch
    \/ UpdatePlayerPosition
    \/ CheckCollideable
    \/ CheckCollectablePotion
    \/ CheckCollectableWeapon
    \/ CheckPortal

Next ==
    \/ Frame
    \/ PlayerSetUp

Spec == Init /\ [][Next]_vars

(***************************************************************************)
(* Coasting.  A key is held in the first MaxFrames frames and none after:  *)
(* the player, above a wall, runs on for CoastFrames frames, one unit a    *)
(* frame, while a finger may snap it to a fixed place in any frame.  The   *)
(* chain runs every frame (Update), so a frame that can run does run.      *)
(***************************************************************************)
CoastWorld ==
    [EmptyWorld EXCEPT
        !.footprints = << TileBox(0, 0) >>,
        !.fingerSeqs = {<<>>, << <<0, 20>> >>},
        !.magnitudes = {1},
        !.frames = MaxFrames + CoastFrames,
        !.keyFrames = MaxFrames]

CoastScenarios ==
    {[world |-> CoastWorld,
      player |-> NewPlayer(0, 8, TileBox(0, 0).w, TileBox(0, 0).h)]}

InitCoast == \E s \in CoastScenarios : InitFrom(s)

SpecCoast == InitCoast /\ [][Frame]_vars /\ WF_vars(Frame)

(***************************************************************************)
(* Vocabulary of the claims.                                               *)
(***************************************************************************)
JustRan(sys) == ran # <<>> /\ ran[Len(ran)] = sys

Overlaps(a, b) == Collide(a, b) # NONE

SameSize(a, b) == a.w = b.w /\ a.h = b.h

\* the four blocking pairs of (direction of travel, struck side)
BlockingPairs ==
    {<<"Left", "Right">>, <<"Right", "Left">>, <<"Up", "Bottom">>, <<"Down", "Top">>}

\* the length of the intersection of the two boxes on each axis (<= 0: none)
OverlapX(a, b) ==
    LET lo == IF a.x - a.w \div 2 > b.x - b.w \div 2 THEN a.x - a.w \div 2 ELSE b.x - b.w \div 2
        hi == IF a.x + a.w \div 2 < b.x + b.w \div 2 THEN a.x + a.w \div 2 ELSE b.x + b.w \div 2
    IN  hi - lo

OverlapY(a, b) ==
    LET lo == IF a.y - a.h \div 2 > b.y - b.h \div 2 THEN a.y - a.h \div 2 ELSE b.y - b.h \div 2
        hi == IF a.y + a.h \div 2 < b.y + b.h \div 2 THEN a.y + a.h \div 2 ELSE b.y + b.h \div 2
    IN  hi - lo

Horizontal(d) == d \in {"Left", "Right"}

Vertical(d) == d \in {"Up", "Down"}

\* how far the leading edge of the moving box p has entered c, along the travel axis
TravelDepth(p, c) ==
    CASE p.direction = "Right" -> (p.x + p.w \div 2) - (c.x - c.w \div 2)
      [] p.direction = "Left"  -> (c.x + c.w \div 2) - (p.x - p.w \div 2)
      [] p.direction = "Up"    -> (p.y + p.h \div 2) - (c.y - c.h \div 2)
      [] p.direction = "Down"  -> (c.y + c.h \div 2) - (p.y - p.h \div 2)
      [] OTHER -> 0

\* the overlap of the two boxes on the axis perpendicular to p's travel
PerpOverlap(p, c) ==
    IF Horizontal(p.direction) THEN OverlapY(p, c) ELSE OverlapX(p, c)

\* the player as footprint i of the loop of check_collideable finds it
BeforeFootprint(p, cs, i) == CollideableLoop(p, SubSeq(cs, 1, i - 1), 1)

\* the leading edge of p lies on the side of c that faces it
OnStruckEdge(p, c) ==
    CASE p.direction = "Right" -> p.x + p.w \div 2 = c.x - c.w \div 2
      [] p.direction = "Left"  -> p.x - p.w \div 2 = c.x + c.w \div 2
      [] p.direction = "Up"    -> p.y + p.h \div 2 = c.y - c.h \div 2
      [] p.direction = "Down"  -> p.y - p.h \div 2 = c.y + c.h \div 2
      [] OTHER -> FALSE


\* the two boxes share boundary points but no interior point
Touching(a, b) ==
    /\ ~Overlaps(a, b)
    /\ OverlapX(a, b) >= 0
    /\ OverlapY(a, b) >= 0

\* the steps of the loop of check_collideable in its last run: for footprint i,
\* the player before (p) and after (r) the footprint was handled
CollideableSteps ==
    {[c |-> world.footprints[i],
      p |-> BeforeFootprint(prev[1], world.footprints, i),
      r |-> BeforeFootprint(prev[1], world.footprints, i + 1)] :
        i \in 1..Len(world.footprints)}

CollideableRan ==
    /\ JustRan("check_collideable")
    /\ Len(prev) = 1
    /\ players = <<BeforeFootprint(prev[1], world.footprints, Len(world.footprints) + 1)>>

(***************************************************************************)
(* C3 as stated: a box that touches a footprint is not corrected; a box    *)
(* that has entered a footprint by one unit along its direction of travel  *)
(* is corrected once, and then no longer overlaps it along that axis.      *)
(***************************************************************************)
C3_AsStated ==
    CollideableRan =>
      \A s \in CollideableSteps :
        /\ Touching(s.p, s.c) => s.r = s.p
        /\ (Overlaps(s.p, s.c) /\ s.p.direction # "Stopped" /\ TravelDepth(s.p, s.c) = 1)
             => /\ s.r # s.p
                /\ TravelDepth(s.r, s.c) = 0
                /\ ResolveCollideable(s.r, s.c) = s.r

(***************************************************************************)
(* C3: a box that touches a footprint is not corrected; a box of the       *)
(* footprint's size that has entered it by one unit along its direction of *)
(* travel, and overlaps it by more than one unit on the perpendicular axis *)
(* (a frontal hit, not a corner graze), is corrected once, and then no     *)
(* longer overlaps it along the travel axis.                               *)
(***************************************************************************)
C3_Boundary ==
    CollideableRan =>
      \A s \in CollideableSteps :
        /\ Touching(s.p, s.c) => s.r = s.p
        /\ (/\ Overlaps(s.p, s.c)
            /\ s.p.direction # "Stopped"
            /\ TravelDepth(s.p, s.c) = 1
            /\ PerpOverlap(s.p, s.c) > 1
            /\ SameSize(s.p, s.c))
             => /\ s.r # s.p
                /\ TravelDepth(s.r, s.c) = 0
                /\ ResolveCollideable(s.r, s.c) = s.r

C3_Witness ==
    /\ CollideableRan
    /\ \E s \in CollideableSteps :
         /\ s.p.direction = "Down"
         /\ TravelDepth(s.p, s.c) = 1
         /\ PerpOverlap(s.p, s.c) = 2
         /\ SameSize(s.p, s.c)
         /\ s.r = players[1]
         /\ TravelDepth(players[1], s.c) = 0
         /\ players[1].speed = 0

(***************************************************************************)
(* C8: when the player overlaps a footprint of its own size and the pair   *)
(* (direction, struck side) is one of the four blocking pairs, the step    *)
(* sets the speed to 0 and moves the player along the travel axis only, so *)
(* that its leading edge lies on the struck edge of the footprint.         *)
(***************************************************************************)
C8_ResolutionTable ==
    CollideableRan =>
      \A s \in CollideableSteps :
        (/\ Overlaps(s.p, s.c)
         /\ <<s.p.direction, Collide(s.p, s.c)>> \in BlockingPairs
         /\ SameSize(s.p, s.c))
          => /\ s.r.speed = 0
             /\ OnStruckEdge(s.r, s.c)
             /\ Horizontal(s.p.direction) => s.r.y = s.p.y
             /\ Vertical(s.p.direction) => s.r.x = s.p.x

C8_Witness ==
    /\ CollideableRan
    /\ \E s \in CollideableSteps :
         /\ <<s.p.direction, Collide(s.p, s.c)>> = <<"Up", "Bottom">>
         /\ SameSize(s.p, s.c)
         /\ s.p.speed = PLAYER_SPEED
         /\ TravelDepth(s.p, s.c) > 1
         /\ s.r = players[1]
         /\ players[1].speed = 0
         /\ OnStruckEdge(players[1], s.c)


(***************************************************************************)
(* C2: in the corridor, the player that starts at cell (0,2), travels      *)
(* Right and is displaced by 100 units in one integration step ends the    *)
(* collision step with its right edge on the wall's left edge, with speed  *)
(* 0, and not overlapping the wall.                                        *)
(***************************************************************************)
C2_WallScenario ==
    (/\ CollideableRan
     /\ world = CorridorWorld
     /\ start[1].x \in {at.x : at \in CorridorStarts}
     /\ inp.keys = {"Right"}
     /\ inp.amount = 100)
      => /\ players[1].x + players[1].w \div 2 = CorridorWall.x - CorridorWall.w \div 2
         /\ players[1].speed = 0
         /\ ~Overlaps(players[1], CorridorWall)

\* the corridor scenario has run: the centred player was displaced by 100
C2_Scenario ==
    /\ CollideableRan
    /\ world = CorridorWorld
    /\ start[1].x = from_tiled_collision(CorridorMap, CorridorTile, SCALE, 0, 2).x
    /\ start[1].y = CorridorWall.y
    /\ inp.keys = {"Right"}
    /\ inp.amount = 100
    /\ Overlaps(players[1], CorridorWall)
    /\ players[1].speed = PLAYER_SPEED


(***************************************************************************)
(* Pickup.                                                                 *)
(***************************************************************************)
OverlappedNow(cs) == {i \in 1..Len(cs) : Overlaps(players[1], cs[i])}

\* C4: a pickup system that has just run, run once more over the same
\* collectables, leaves the player (and so the inventory) exactly as the
\* first run left it; for the potion system and for the weapon system.
C4_PickupIdempotent ==
    /\ (Len(players) = 1 /\ JustRan("check_collectable_potion"))
         => check_collectable_potion(players, world.potions) = players
    /\ (Len(players) = 1 /\ JustRan("check_collectable_weapon"))
         => check_collectable_weapon(players, world.weapons) = players

\* The potion system has just run on a player that overlaps two potions of
\* different kinds, and it changed the slot.
C4_Witness ==
    /\ Len(players) = 1
    /\ JustRan("check_collectable_potion")
    /\ Cardinality({world.potions[i].kind : i \in OverlappedNow(world.potions)}) = 2
    /\ players[1].potion # prev[1].potion

PickupEffect(log, cs, kinds) ==
    \A n \in 1..Len(log) :
        LET e == log[n]
        IN  /\ e.after \in kinds \cup {NONE}
            /\ (\E i \in 1..Len(cs) : e.over = {i}) =>
                   e.after = cs[CHOOSE i \in 1..Len(cs) : e.over = {i}].kind
            /\ e.over = {} => e.after = e.before

\* C5: after every run of a pickup system in which the player overlapped
\* exactly one collectable of the category, the slot of that category holds
\* that collectable's value, whatever it held before; a slot holds one value;
\* a run with nothing overlapping (the player has moved away) leaves the
\* slot alone, so a later run overlapping the same collectable finds and
\* leaves its value; and no step removes or changes a collectable.
C5_PickupEffect ==
    /\ [](PickupEffect(pickLog.potion, world.potions, Potions)
          /\ PickupEffect(pickLog.weapon, world.weapons, Weapons))
    /\ [][world'.potions = world.potions /\ world'.weapons = world.weapons]_vars

\* Three frames: a player holding a Blue potion overlaps the Red potion
\* alone and takes it, moves away, and overlaps it again.
C5_Witness ==
    /\ Len(pickLog.potion) = 3
    /\ pickLog.potion[1].over = {1}
    /\ pickLog.potion[1].before = "Blue"
    /\ pickLog.potion[1].after = "Red"
    /\ pickLog.potion[2].over = {}
    /\ pickLog.potion[3].over = {1}
    /\ pickLog.potion[3].after = "Red"
    /\ world.potions[1].kind = "Red"


(***************************************************************************)
(* Portals.                                                                *)
(***************************************************************************)
PortalRan == Len(players) = 1 /\ Len(prev) = 1 /\ JustRan("check_portal")

\* the player as iteration i of the last run of check_portal found it
PortalBefore(i) ==
    PortalLoop(prev[1], SubSeq(PortalQuery(world.portals), 1, i - 1), 1, <<>>).player

\* the place of portal k of the world in the query, 0 when it is not in it
QueryPos(k) ==
    IF world.portals[k].hasInventory
      THEN Len(PortalQuery(SubSeq(world.portals, 1, k)))
      ELSE 0

Visited(k) == QueryPos(k) \in 1..Len(portalLog)

Admitted(k) == Visited(k) /\ portalLog[QueryPos(k)] = "pass"

\* the player's box when the run came to portal k, or, for a portal the run
\* never came to, the box the run left
BoxAt(k) == IF Visited(k) THEN PortalBefore(QueryPos(k)) ELSE players[1]

HoldsRequired(p, q) ==
    /\ p.potion # NONE
    /\ p.weapon # NONE
    /\ p.potion = q.potion
    /\ p.weapon = q.weapon

\* C1: in a run of check_portal, for every portal the player's box
\* overlaps, the player is admitted to the traversal step exactly when both
\* its slots are occupied and equal the portal's required slots.
C1_PortalGate ==
    PortalRan =>
        \A k \in 1..Len(world.portals) :
            Overlaps(BoxAt(k), world.portals[k]) =>
                (Admitted(k) <=> HoldsRequired(BoxAt(k), world.portals[k]))

\* The player stands across two gates and holds what the second asks for;
\* the run stopped at the first.
C1_TwoGates ==
    /\ PortalRan
    /\ Len(world.portals) = 2
    /\ portalLog = <<"halt">>
    /\ Overlaps(players[1], world.portals[2])
    /\ HoldsRequired(players[1], world.portals[2])

NearEdge(direction) ==
    CASE direction = "Right" -> "Left"
      [] direction = "Left"  -> "Right"
      [] direction = "Down"  -> "Top"
      [] direction = "Up"    -> "Bottom"
      [] OTHER -> NONE

PastFarEdge(p, q, direction) ==
    CASE direction = "Right" -> p.x - p.w \div 2 >= q.x + q.w \div 2
      [] direction = "Left"  -> p.x + p.w \div 2 <= q.x - q.w \div 2
      [] direction = "Down"  -> p.y + p.h \div 2 <= q.y - q.h \div 2
      [] direction = "Up"    -> p.y - p.h \div 2 >= q.y + q.h \div 2
      [] OTHER -> FALSE

\* C9: in a run of check_portal, whenever the gate of a portal passes and
\* the player struck the portal's near edge for its direction of travel
\* (any of the four), that iteration leaves the player past the far edge,
\* not overlapping the portal, at speed PLAYER_SPEED.
C9_Traversal ==
    PortalRan =>
        \A i \in 1..Len(portalLog) :
            LET q == PortalQuery(world.portals)[i]
                before == PortalBefore(i)
                after == PortalBefore(i + 1)
            IN  (/\ portalLog[i] = "pass"
                 /\ before.direction # "Stopped"
                 /\ Collide(before, q) = NearEdge(before.direction))
                  => /\ PastFarEdge(after, q, before.direction)
                     /\ ~Overlaps(after, q)
                     /\ after.speed = PLAYER_SPEED

\* The player walked Right into the left edge of a gate it may pass.
C9_RightIntoGate ==
    /\ PortalRan
    /\ portalLog = <<"pass">>
    /\ prev[1].direction = "Right"
    /\ Collide(prev[1], PortalQuery(world.portals)[1]) = "Left"
    /\ players[1] = prev[1]


(***************************************************************************)
(* The order of the frame.                                                 *)
(***************************************************************************)
StatedOrder ==
    << "input_system_keyboard",
       "input_system_touch",
       "update_player_position",
       "check_collideable",
       "check_collectable_potion",
       "check_collectable_weapon",
       "check_portal" >>

\* what step n of the stated order makes of the players, given what the
\* frame's systems read
StepOf(n, ps) ==
    CASE n = 1 -> input_system_keyboard(ps, inp.keys)
      [] n = 2 -> input_system_touch(ps, inp.fingers)
      [] n = 3 -> update_player_position(ps, inp.amount)
      [] n = 4 -> check_collideable(ps, world.footprints)
      [] n = 5 -> check_collectable_potion(ps, world.potions)
      [] n = 6 -> check_collectable_weapon(ps, world.weapons)
      [] n = 7 -> check_portal(ps, world.portals).players

RECURSIVE Composed(_)
Composed(n) == IF n = 0 THEN start ELSE StepOf(n, Composed(n - 1))

\* C6: the systems that have run in the current frame are always the first
\* so many of the stated order, each once, and the next to run is the next
\* of that order; and the players are what the stated steps, each applied
\* to the result of the one before, make of the players the frame began
\* with.
C6_FrameOrder ==
    /\ Len(ran) <= Len(StatedOrder)
    /\ ran = SubSeq(StatedOrder, 1, Len(ran))
    /\ pc = StatedOrder[(Len(ran) % Len(StatedOrder)) + 1]
    /\ players = Composed(Len(ran))

\* A whole frame in which every system changed the player: Down is held, a
\* finger puts the player above the wall, it walks into the wall and is put
\* back on top of it, where it takes the potion and the sword, which open
\* the gate that carries it through.
C6_Witness ==
    /\ ran = StatedOrder
    /\ \A n \in 1..Len(StatedOrder) : Composed(n) # Composed(n - 1)
    /\ portalLog = <<"pass">>
    /\ players[1].potion = "Red"
    /\ players[1].weapon = "Sword"


(***************************************************************************)
(* The coordinate mapping on its own: one cell of the document of a map of *)
(* up to MaxMap x MaxMap tiles, the tile build_tiles places for it and the *)
(* footprint build_collideables derives from it.                           *)
(***************************************************************************)
PlayerVars == <<world, players, pc, frame, start, prev, inp, portalLog, ran, pickLog>>

NoPlayers ==
    /\ world = EmptyWorld
    /\ players = <<>>
    /\ pc = Chain[1]
    /\ frame = 0
    /\ start = <<>>
    /\ prev = <<>>
    /\ inp = NoInput
    /\ portalLog = <<>>
    /\ ran = <<>>
    /\ pickLog = NoPicks

NoPoint == [x |-> 0, y |-> 0]

TileSides == {2, 4, 16}

\* the world position of the tile with grid index (x, y) of a tilemap whose
\* translation is the map origin and whose scale is SCALE
tile_translation(tilemap_size, tile_size, scale, x, y) ==
    [x |-> get_map_origin(tilemap_size, tile_size, scale).x
             + x * scaled(tile_size, scale).width,
     y |-> get_map_origin(tilemap_size, tile_size, scale).y
             + y * scaled(tile_size, scale).height]

\* mutant: half the unscaled size added, not half the scaled size
from_tiled_object_shape_unscaled(tilemap_size, tile_size, scale, x, y, width, height) ==
    [x |-> (x * scale) - ((tilemap_size.width * scaled(tile_size, scale).width) \div 2)
             + width \div 2,
     y |-> -((y * scale) - ((tilemap_size.height * scaled(tile_size, scale).height) \div 2))
             - height \div 2]

\* width * 1.5 and height * 1.5, of even sizes
from_tiled_object_shape(tilemap_size, tile_size, scale, x, y, width, height) ==
    [x |-> (x * scale) - ((tilemap_size.width * scaled(tile_size, scale).width) \div 2)
             + (width * 3) \div 2,
     y |-> -((y * scale) - ((tilemap_size.height * scaled(tile_size, scale).height) \div 2))
             - (height * 3) \div 2]

(***************************************************************************)
(* build_tiles.  A finite tile layer is a function of the document's cell  *)
(* coordinates; a cell is empty or holds a tile of one tileset, with the   *)
(* tile's id in that tileset and its three flip flags.                     *)
(***************************************************************************)
NoTile ==
    [empty |-> TRUE, tileset |-> 0, id |-> 0,
     flip_h |-> FALSE, flip_v |-> FALSE, flip_d |-> FALSE]

LayerTile(tileset, id, flip_h, flip_v, flip_d) ==
    [empty |-> FALSE, tileset |-> tileset, id |-> id,
     flip_h |-> flip_h, flip_v |-> flip_v, flip_d |-> flip_d]

\* layer_data.get_tile: nothing outside the layer and nothing in an empty cell
get_tile(layer_data, x, y) ==
    IF <<x, y>> \in DOMAIN layer_data THEN layer_data[<<x, y>>] ELSE NoTile

\* mutant: the horizontal flag of the document used for FLIP_X
TileFlagsHorizontal(layer_tile_data) ==
    IF layer_tile_data.flip_v /\ layer_tile_data.flip_h THEN {"FLIP_X", "FLIP_Y"}
    ELSE IF layer_tile_data.flip_v THEN {"FLIP_Y"}
    ELSE IF layer_tile_data.flip_h THEN {"FLIP_X"}
    ELSE {}

TileFlags(layer_tile_data) ==
    IF layer_tile_data.flip_v /\ layer_tile_data.flip_d THEN {"FLIP_X", "FLIP_Y"}
    ELSE IF layer_tile_data.flip_v THEN {"FLIP_Y"}
    ELSE IF layer_tile_data.flip_d THEN {"FLIP_X"}
    ELSE {}

\* mutant: the tile of any tileset is taken, as build_collideables takes it
BuildTilesStepAnyTileset(layer_data, tilemap_size, tileset_index, layer_index, x, y) ==
    LET point == from_tiled_tile(tilemap_size, x, y)
        layer_tile == get_tile(layer_data, point.x, point.y)
    IN  IF layer_tile.empty THEN <<>>
        ELSE << [at |-> <<x, y, layer_index>>,
                 sprite_index |-> layer_tile.id,
                 flags |-> TileFlags(layer_tile)] >>

\* the iteration (x, y) of the loops of build_tiles: what it pushes
BuildTilesStep(layer_data, tilemap_size, tileset_index, layer_index, x, y) ==
    LET point == from_tiled_tile(tilemap_size, x, y)
        layer_tile == get_tile(layer_data, point.x, point.y)
    IN  IF layer_tile.empty THEN <<>>
        ELSE IF tileset_index # layer_tile.tileset THEN <<>>
        ELSE << [at |-> <<x, y, layer_index>>,
                 sprite_index |-> layer_tile.id,
                 flags |-> TileFlags(layer_tile)] >>

\* for x in 0..width { for y in 0..height }: iteration k is (k / height, k % height)
RECURSIVE BuildTilesLoop(_, _, _, _, _)
BuildTilesLoop(layer_data, tilemap_size, tileset_index, layer_index, k) ==
    IF k >= tilemap_size.width * tilemap_size.height THEN <<>>
    ELSE BuildTilesStep(layer_data, tilemap_size, tileset_index, layer_index,
                        k \div tilemap_size.height, k % tilemap_size.height)
           \o BuildTilesLoop(layer_data, tilemap_size, tileset_index, layer_index, k + 1)

build_tiles(tile_layer, tilemap_size, tileset_index, layer_index) ==
    BuildTilesLoop(tile_layer, tilemap_size, tileset_index, layer_index, 0)

\* the tileset indices of a map of two tilesets
LayerTilesets == 0..1

\* the cells of a layer of the given size
Cells(width, height) == (0..(width - 1)) \X (0..(height - 1))

\* layers of unflipped tiles: every cell empty (-1) or of one of the
\* tilesets, the tile's id telling the cells apart
PatternLayers(width, height) ==
    {[c \in Cells(width, height) |->
         IF kind[c] = -1 THEN NoTile
         ELSE LayerTile(kind[c], 1 + c[1] + width * c[2], FALSE, FALSE, FALSE)] :
        kind \in [Cells(width, height) -> (-1)..1]}

\* layers of one tile, flipped in every way
FlipLayers ==
    {[c \in Cells(1, 1) |-> LayerTile(0, 1, flip_h, flip_v, flip_d)] :
        flip_h \in BOOLEAN, flip_v \in BOOLEAN, flip_d \in BOOLEAN}

\* the places of tile layers among the layers of the map
LayerIndices == 0..1

LayerInput(width, height, tile_layer, layer_index) ==
    [stage |-> "layer",
     tilemap_size |-> [width |-> width, height |-> height],
     tile_layer |-> tile_layer,
     layer_index |-> layer_index,
     called |-> {},
     tiles |-> [t \in LayerTilesets |-> <<>>]]

\* the sizes of the tile layers: at most MaxLayer cells
LayerSizes ==
    {size \in (1..MaxLayer) \X (1..MaxLayer) : size[1] * size[2] <= MaxLayer}

LayerInputs ==
    {LayerInput(1, 1, tile_layer, layer_index) :
        tile_layer \in FlipLayers, layer_index \in LayerIndices}
      \cup UNION {{LayerInput(size[1], size[2], tile_layer, layer_index) :
                      tile_layer \in PatternLayers(size[1], size[2]),
                      layer_index \in LayerIndices} :
                   size \in LayerSizes}

\* document coordinates of sprite objects, in pixels of the document
ObjectCoords == {0, 5, 50, 100}

\* a 20x15-tile map with 16x16 tiles and a sprite object at (100, 50)
GoldenObject ==
    [stage |-> "object",
     tilemap_size |-> [width |-> 20, height |-> 15],
     tile_size |-> [width |-> 16, height |-> 16],
     object |-> [x |-> 100, y |-> 50],
     placed |-> FALSE, translation |-> NoPoint]

ObjectInputs ==
    {GoldenObject} \cup
    {[stage |-> "object",
      tilemap_size |-> [width |-> width, height |-> height],
      tile_size |-> [width |-> tw, height |-> th],
      object |-> [x |-> ox, y |-> oy],
      placed |-> FALSE, translation |-> NoPoint] :
        width \in 1..MaxMap, height \in 1..MaxMap, tw \in TileSides, th \in TileSides,
        ox \in ObjectCoords, oy \in ObjectCoords}

\* the sides of rectangle objects, in pixels of the document
ShapeSides == {2, 6}

ShapeInputs ==
    {[stage |-> "shape",
      tilemap_size |-> [width |-> width, height |-> height],
      tile_size |-> [width |-> tw, height |-> th],
      object |-> [x |-> ox, y |-> oy, width |-> ow, height |-> oh],
      placed |-> FALSE, translation |-> NoPoint] :
        width \in 1..MaxMap, height \in 1..MaxMap, tw \in TileSides, th \in TileSides,
        ox \in ObjectCoords, oy \in ObjectCoords, ow \in ShapeSides, oh \in ShapeSides}

InitCoord ==
    /\ NoPlayers
    /\ load = NoLoad
    /\ \/ coord \in ObjectInputs
       \/ coord \in ShapeInputs
       \/ coord \in LayerInputs
       \/ \E width \in 1..MaxMap, height \in 1..MaxMap, tw \in TileSides, th \in TileSides :
            \E cx \in 0..(width - 1), cy \in 0..(height - 1) :
               coord = [stage |-> "cell",
                        tilemap_size |-> [width |-> width, height |-> height],
                        tile_size |-> [width |-> tw, height |-> th],
                        cell |-> [x |-> cx, y |-> cy],
                        tiled |-> FALSE, tile |-> NoPoint,
                        collided |-> FALSE, collision_point |-> NoPoint]

\* build_tiles: the iteration (x, y) that reads the cell puts its tile at
\* grid index (x, y)
BuildTiles ==
    /\ coord.stage = "cell"
    /\ ~coord.tiled
    /\ \E x \in 0..(coord.tilemap_size.width - 1), y \in 0..(coord.tilemap_size.height - 1) :
         /\ from_tiled_tile(coord.tilemap_size, x, y) = coord.cell
         /\ coord' = [coord EXCEPT
                        !.tiled = TRUE,
                        !.tile = tile_translation(coord.tilemap_size, coord.tile_size,
                                                  SCALE, x, y)]
    /\ UNCHANGED <<PlayerVars, load>>

\* build_collideables: the iteration (x, y) that reads the cell derives the
\* footprint from the cell's document coordinates
BuildCollideables ==
    /\ coord.stage = "cell"
    /\ ~coord.collided
    /\ \E x \in 0..(coord.tilemap_size.width - 1), y \in 0..(coord.tilemap_size.height - 1) :
         LET tile_point == from_tiled_tile(coord.tilemap_size, x, y)
         IN  /\ tile_point = coord.cell
             /\ coord' = [coord EXCEPT
                            !.collided = TRUE,
                            !.collision_point =
                                from_tiled_collision(coord.tilemap_size, coord.tile_size,
                                                     SCALE, tile_point.x, tile_point.y)]
    /\ UNCHANGED <<PlayerVars, load>>

\* process_map_object_sprites: the sprite of an object with tile data is
\* spawned at the point from_tiled_object makes of the object's coordinates
PlaceObjectSprite ==
    /\ coord.stage = "object"
    /\ ~coord.placed
    /\ coord' = [coord EXCEPT
                   !.placed = TRUE,
                   !.translation =
                       from_tiled_object(coord.tilemap_size, coord.tile_size, SCALE,
                                         coord.object.x, coord.object.y)]
    /\ UNCHANGED <<PlayerVars, load>>

\* process_map_layers: build_tiles is called for one tileset and the layer
BuildTilesOfLayer ==
    /\ coord.stage = "layer"
    /\ \E tileset_index \in LayerTilesets \ coord.called :
         coord' = [coord EXCEPT
                     !.called = @ \cup {tileset_index},
                     !.tiles[tileset_index] =
                         build_tiles(coord.tile_layer, coord.tilemap_size,
                                     tileset_index, coord.layer_index)]
    /\ UNCHANGED <<PlayerVars, load>>

\* process_map_object_shapes: the rectangle of an object without tile data
\* is spawned at the point from_tiled_object_shape makes of it
PlaceObjectShape ==
    /\ coord.stage = "shape"
    /\ ~coord.placed
    /\ coord' = [coord EXCEPT
                   !.placed = TRUE,
                   !.translation =
                       from_tiled_object_shape(coord.tilemap_size, coord.tile_size, SCALE,
                                               coord.object.x, coord.object.y,
                                               coord.object.width, coord.object.height)]
    /\ UNCHANGED <<PlayerVars, load>>

NextCoord ==
    \/ PlaceObjectShape
    \/ BuildTilesOfLayer
    \/ BuildTiles
    \/ BuildCollideables
    \/ PlaceObjectSprite

SpecCoord == InitCoord /\ [][NextCoord]_vars

Distance(a, b) == IF a < b THEN b - a ELSE a - b

BothPlaced == coord.stage = "cell" /\ coord.tiled /\ coord.collided

ObjectPlaced == coord.stage = "object" /\ coord.placed

ShapePlaced == coord.stage = "shape" /\ coord.placed

\* where from_tiled_object puts the corner of the placed shape
ShapeCorner ==
    from_tiled_object(coord.tilemap_size, coord.tile_size, SCALE,
                      coord.object.x, coord.object.y)

\* C25: from_tiled_object_shape(x, y, w, h) is from_tiled_object(x, y)
\* shifted by +1.5*w in x and -1.5*h in y, with w and h the unscaled size
\* of the shape (stated doubled); at SCALE it is the centre of the scaled
\* rectangle whose top-left corner is from_tiled_object(x, y): as far from
\* its left edge as from its right, and from its top as from its bottom.
C25_ShapeMapping ==
    ShapePlaced =>
        /\ 2 * (coord.translation.x - ShapeCorner.x) = 3 * coord.object.width
        /\ 2 * (coord.translation.y - ShapeCorner.y) = -(3 * coord.object.height)
        /\ coord.translation.x - ShapeCorner.x
             = (ShapeCorner.x + coord.object.width * SCALE) - coord.translation.x
        /\ ShapeCorner.y - coord.translation.y
             = coord.translation.y - (ShapeCorner.y - coord.object.height * SCALE)

\* A rectangle wider than high, off the corner of a map that is not square.
C25_Witness ==
    /\ ShapePlaced
    /\ coord.object.width > coord.object.height
    /\ coord.object.x > 0
    /\ coord.object.y > coord.object.x
    /\ coord.tilemap_size.width # coord.tilemap_size.height
    /\ coord.translation.x = ShapeCorner.x + 9
    /\ coord.translation.y = ShapeCorner.y - 3

\* the places in the result of build_tiles for tileset t that put a tile
\* at grid index (x, y) of the layer
EmittedAt(t, x, y) ==
    {k \in 1..Len(coord.tiles[t]) : coord.tiles[t][k].at = <<x, y, coord.layer_index>>}

\* the document's cell that grid index (x, y) shows
DocumentCell(x, y) == coord.tile_layer[<<x, coord.tilemap_size.height - 1 - y>>]

\* C21: for a finite tile layer, build_tiles called for tileset t puts a
\* tile at grid (x, y, layer_index) exactly for the in-bounds cells where
\* the document's cell (x, mapHeight-1-y) is not empty and belongs to
\* tileset t, once, with that cell's id; so once it has been called for
\* every tileset each cell that is not empty has been emitted exactly once
\* and no empty cell ever.
C21_TileMaterialization ==
    coord.stage = "layer" =>
        /\ \A t \in coord.called :
              /\ \A k \in 1..Len(coord.tiles[t]) :
                    /\ <<coord.tiles[t][k].at[1], coord.tiles[t][k].at[2]>> \in
                          Cells(coord.tilemap_size.width, coord.tilemap_size.height)
                    /\ coord.tiles[t][k].at[3] = coord.layer_index
              /\ \A c \in Cells(coord.tilemap_size.width, coord.tilemap_size.height) :
                    IF ~DocumentCell(c[1], c[2]).empty /\ DocumentCell(c[1], c[2]).tileset = t
                      THEN /\ Cardinality(EmittedAt(t, c[1], c[2])) = 1
                           /\ \A k \in EmittedAt(t, c[1], c[2]) :
                                 coord.tiles[t][k].sprite_index = DocumentCell(c[1], c[2]).id
                      ELSE EmittedAt(t, c[1], c[2]) = {}
        /\ coord.called = LayerTilesets =>
              \A c \in Cells(coord.tilemap_size.width, coord.tilemap_size.height) :
                  Cardinality(UNION {{<<t, k>> : k \in EmittedAt(t, c[1], c[2])} :
                                       t \in LayerTilesets})
                    = IF DocumentCell(c[1], c[2]).empty THEN 0 ELSE 1

\* C22: for every combination of the document's flags flip_h, flip_v and
\* flip_d of a tile, the tile build_tiles emits has FLIP_X and FLIP_Y when
\* flip_v and flip_d are both set, FLIP_Y when only flip_v is set, FLIP_X
\* when only flip_d is set and no flag otherwise, whatever flip_h is.
C22_FlipFlags ==
    coord.stage = "layer" =>
        \A t \in coord.called :
            \A k \in 1..Len(coord.tiles[t]) :
                LET data == DocumentCell(coord.tiles[t][k].at[1], coord.tiles[t][k].at[2])
                    flags == coord.tiles[t][k].flags
                IN  /\ (data.flip_v /\ data.flip_d) => flags = {"FLIP_X", "FLIP_Y"}
                    /\ (data.flip_v /\ ~data.flip_d) => flags = {"FLIP_Y"}
                    /\ (~data.flip_v /\ data.flip_d) => flags = {"FLIP_X"}
                    /\ (~data.flip_v /\ ~data.flip_d) => flags = {}

\* A tile flipped horizontally and diagonally in the document has been
\* emitted with FLIP_X alone.
C22_Witness ==
    /\ coord.stage = "layer"
    /\ 0 \in coord.called
    /\ coord.tile_layer[<<0, 0>>].flip_h
    /\ ~coord.tile_layer[<<0, 0>>].flip_v
    /\ coord.tile_layer[<<0, 0>>].flip_d
    /\ Len(coord.tiles[0]) = 1
    /\ coord.tiles[0][1].flags = {"FLIP_X"}

\* A layer two cells high with tiles of both tilesets and an empty cell:
\* build_tiles has been called for both tilesets, and the tile of the
\* document's top row is in the result at the grid's top row.
C21_Witness ==
    /\ coord.stage = "layer"
    /\ coord.called = LayerTilesets
    /\ coord.tilemap_size.height = 2
    /\ coord.layer_index = 1
    /\ ~coord.tile_layer[<<0, 0>>].empty
    /\ coord.tile_layer[<<0, 0>>].tileset = 1
    /\ coord.tile_layer[<<0, 1>>].empty
    /\ coord.tiles[1] # <<>>
    /\ coord.tiles[1][1].at = <<0, 1, 1>>
    /\ coord.tiles[1][1].sprite_index = coord.tile_layer[<<0, 0>>].id
    /\ \E c \in DOMAIN coord.tile_layer : coord.tile_layer[c].tileset = 0 /\ ~coord.tile_layer[c].empty

\* C12: a sprite object at document coordinates (100, 50) on a 20x15-tile
\* map with 16x16 tiles at scale 3 is materialized at x = -180, y = 210; in
\* general x_world = x*scale - mapW*tileW*scale/2 and
\* y_world = -(y*scale - mapH*tileH*scale/2), the document's y negated with
\* no row inversion (stated here doubled, so that nothing is divided).
C12_ObjectPlacement ==
    ObjectPlaced =>
        /\ 2 * coord.translation.x
             = 2 * coord.object.x * SCALE
                 - coord.tilemap_size.width * coord.tile_size.width * SCALE
        /\ 2 * coord.translation.y
             = -(2 * coord.object.y * SCALE
                   - coord.tilemap_size.height * coord.tile_size.height * SCALE)
        /\ (/\ coord.tilemap_size = [width |-> 20, height |-> 15]
            /\ coord.tile_size = [width |-> 16, height |-> 16]
            /\ coord.object = [x |-> 100, y |-> 50])
              => coord.translation = [x |-> -180, y |-> 210]

\* The sprite of the 20x15 map's object at (100, 50) has been spawned.
C12_Witness ==
    /\ ObjectPlaced
    /\ coord.tilemap_size = [width |-> 20, height |-> 15]
    /\ coord.tile_size = [width |-> 16, height |-> 16]
    /\ coord.object = [x |-> 100, y |-> 50]

\* C10 as stated: the footprint of a cell lies exactly one scaled tile away
\* from the cell's tile, in x and in y.
C10_FullTileApart ==
    BothPlaced =>
        /\ Distance(coord.collision_point.x, coord.tile.x)
             = scaled(coord.tile_size, SCALE).width
        /\ Distance(coord.collision_point.y, coord.tile.y)
             = scaled(coord.tile_size, SCALE).height

\* C10: for every in-bounds cell, the world position of the footprint
\* derived from the cell is the world position of the tile rendered for the
\* cell (map origin plus grid index times scaled tile size): the two differ
\* by nothing on either axis, so by no half tile and by no full tile.
C10_FootprintOnTile ==
    BothPlaced => coord.collision_point = coord.tile

\* A cell off the first row and column of a map that is not square, with a
\* tile that is not square.
C10_Witness ==
    /\ BothPlaced
    /\ coord.cell.x > 0
    /\ coord.cell.y > 0
    /\ coord.cell.y < coord.tilemap_size.height - 1
    /\ coord.tilemap_size.width # coord.tilemap_size.height
    /\ coord.tile_size.width # coord.tile_size.height


(***************************************************************************)
(* Map loading.  setup (Startup) spawns the map entity with the handle of  *)
(* an asset that loads in the background; Startup and the first Update run *)
(* in the same frame.  Each frame: the asset server may publish the loaded *)
(* asset, the four process_map_* systems run in Update in any order, their *)
(* commands are applied, the three setup_* systems run in PostUpdate in    *)
(* any order, their commands are applied.  Every one of the seven systems  *)
(* looks at Added<Handle<TiledMap>>, which is true of the map entity in    *)
(* the first run of the system and in no later run.                        *)
(*                                                                         *)
(* A document has tilesets (with or without an image), one tile layer with *)
(* some cells (each the shapes of the collision data of the cell's tile,   *)
(* none when the tile has no collision data), and objects: tile objects    *)
(* and shapes, with a class and a name.  A name is a text in pieces: a     *)
(* piece "," is a comma, any other piece a run of other characters; the    *)
(* name is empty when the object has none.                                 *)
(***************************************************************************)
MapSystems ==
    { "process_map_layers", "process_map_collideables",
      "process_map_object_sprites", "process_map_object_shapes" }

SetupSystems == { "setup_player", "setup_portals", "setup_collectables" }

NoObject ==
    [class |-> NONE, name |-> <<>>, tile |-> FALSE, rect |-> FALSE, width |-> 0, height |-> 0]

EmptyInventory == [potion |-> NONE, weapon |-> NONE]

\* size is the TilemapTileSize inserted with the entity
MapEntity(kind, tileset, index, object, size) ==
    [kind |-> kind, tileset |-> tileset, index |-> index, part |-> 0,
     class |-> object.class, name |-> object.name, size |-> size,
     comps |-> {}, inventory |-> EmptyInventory, item |-> NONE]

Key(e) == <<e.kind, e.tileset, e.index, e.part>>

\* TiledLoader: tilemap_textures has an entry for the tilesets with an image
Textured(doc) == {i \in 1..Len(doc.tilesets) : doc.tilesets[i].image}

process_map_layers(doc) ==
    {MapEntity("layer", i, l, NoObject, scaled(doc.tilesets[i].tile_size, SCALE)) :
        i \in Textured(doc), l \in 1..doc.tileLayers}

\* build_collideables: of every cell of the layer, one collideable for each
\* Rect among the shapes of its tile's collision data
build_collideables(doc, layer_index) ==
    UNION {{[cell |-> (layer_index - 1) * Len(doc.cells) + c, part |-> n] :
               n \in {m \in 1..Len(doc.cells[c]) : doc.cells[c][m].shape = "Rect"}} :
           c \in 1..Len(doc.cells)}

\* mutant: the footprint is given the size of the tile's collision rectangle
process_map_collideables_rect_size(doc) ==
    {[MapEntity("footprint", i, collideable.cell, NoObject,
                scaled([width |-> doc.cells[((collideable.cell - 1) % Len(doc.cells)) + 1]
                                           [collideable.part].width,
                        height |-> doc.cells[((collideable.cell - 1) % Len(doc.cells)) + 1]
                                            [collideable.part].height], SCALE))
         EXCEPT !.part = collideable.part] :
        i \in 1..Len(doc.tilesets),
        collideable \in UNION {build_collideables(doc, l) : l \in 1..doc.tileLayers}}

process_map_collideables(doc) ==
    {[MapEntity("footprint", i, collideable.cell, NoObject,
                scaled(doc.tilesets[i].tile_size, SCALE))
         EXCEPT !.part = collideable.part] :
        i \in 1..Len(doc.tilesets),
        collideable \in UNION {build_collideables(doc, l) : l \in 1..doc.tileLayers}}

process_map_object_sprites(doc) ==
    {MapEntity("object", i, j, doc.objects[j], scaled(doc.tilesets[i].tile_size, SCALE)) :
        i \in Textured(doc), j \in {k \in 1..Len(doc.objects) : doc.objects[k].tile}}

process_map_object_shapes(doc) ==
    {MapEntity("shape", i, j, doc.objects[j],
               scaled([width |-> doc.objects[j].width, height |-> doc.objects[j].height],
                      SCALE)) :
        i \in 1..Len(doc.tilesets),
        j \in {k \in 1..Len(doc.objects) : ~doc.objects[k].tile /\ doc.objects[k].rect}}

Insert(e, comps, inventory, item) ==
    [key |-> Key(e), comps |-> comps, inventory |-> inventory, item |-> item]

setup_player(entities) ==
    {Insert(e, {"Player", "Inventory", "Moveable"}, EmptyInventory, NONE) :
        e \in {f \in entities : f.kind = "object" /\ f.class = "Player"}}

PotionNamed(token) ==
    CASE token = "Green potion" -> "Green"
      [] token = "Red potion"   -> "Red"
      [] token = "Blue potion"  -> "Blue"
      [] OTHER -> NONE

\* the text of a run of pieces: of several pieces it is none of the words
\* the systems match (no piece of a name used here is part of such a word)
Text(pieces) ==
    IF pieces = <<>> THEN ""
    ELSE IF Len(pieces) = 1 THEN pieces[1]
    ELSE "..."

\* name.split(','): the texts between the commas, empty ones included
RECURSIVE SplitFrom(_, _, _)
SplitFrom(name, i, piece) ==
    IF i > Len(name) THEN <<Text(piece)>>
    ELSE IF name[i] = "," THEN <<Text(piece)>> \o SplitFrom(name, i + 1, <<>>)
    ELSE SplitFrom(name, i + 1, Append(piece, name[i]))

split(name) == SplitFrom(name, 1, <<>>)

\* mutant: a slot once set is kept, so the first matching token wins
RECURSIVE ParseInventoryFirstWins(_, _, _)
ParseInventoryFirstWins(tokens, n, inventory) ==
    IF n > Len(tokens) THEN inventory
    ELSE ParseInventoryFirstWins(tokens, n + 1,
           IF PotionNamed(tokens[n]) # NONE /\ inventory.potion = NONE
             THEN [inventory EXCEPT !.potion = PotionNamed(tokens[n])]
           ELSE IF tokens[n] \in Weapons /\ inventory.weapon = NONE
             THEN [inventory EXCEPT !.weapon = tokens[n]]
           ELSE inventory)

RECURSIVE ParseInventory(_, _, _)
ParseInventory(tokens, n, inventory) ==
    IF n > Len(tokens) THEN inventory
    ELSE ParseInventory(tokens, n + 1,
           IF PotionNamed(tokens[n]) # NONE
             THEN [inventory EXCEPT !.potion = PotionNamed(tokens[n])]
           ELSE IF tokens[n] \in Weapons
             THEN [inventory EXCEPT !.weapon = tokens[n]]
           ELSE inventory)

\* the order in which a query visits the entities one system spawned: the
\* tilesets in turn, and the objects in turn for each
SpawnedBefore(e, f) ==
    \/ e.tileset < f.tileset
    \/ e.tileset = f.tileset /\ e.index < f.index

InSpawnOrder(es) ==
    [k \in 1..Cardinality(es) |->
        CHOOSE e \in es : Cardinality({f \in es : SpawnedBefore(f, e)}) = k - 1]

RECURSIVE PortalsLoop(_, _, _)
PortalsLoop(shapes, k, cmds) ==
    IF k > Len(shapes) THEN cmds
    ELSE IF shapes[k].class = NONE THEN PortalsLoop(shapes, k + 1, cmds)
    ELSE IF shapes[k].class # "Portal" THEN cmds
    ELSE PortalsLoop(shapes, k + 1,
           cmds \cup
             { IF shapes[k].name # <<>>
                 THEN Insert(shapes[k], {"Portal", "Inventory"},
                             ParseInventory(split(shapes[k].name), 1, EmptyInventory), NONE)
                 ELSE Insert(shapes[k], {"Portal"}, EmptyInventory, NONE) })

setup_portals(entities) ==
    PortalsLoop(InSpawnOrder({e \in entities : e.kind = "shape"}), 1, {})

CollectableNamed(name) ==
    IF PotionNamed(Text(name)) # NONE THEN PotionNamed(Text(name))
    ELSE IF Text(name) \in Weapons THEN Text(name)
    ELSE NONE

setup_collectables(entities) ==
    {Insert(e,
            IF CollectableNamed(e.name) # NONE THEN {"Collectable"} ELSE {},
            EmptyInventory, CollectableNamed(e.name)) :
        e \in {f \in entities : f.kind = "object" /\ f.class = "Collectable"}}

\* apply_deferred: the spawns, then the inserts
Spawned(entities, spawns) == entities \cup spawns

Inserted(entities, inserts) ==
    {LET mine == {c \in inserts : c.key = Key(e)}
     IN  [e EXCEPT
            !.comps = @ \cup UNION {c.comps : c \in mine},
            !.inventory = IF \E c \in mine : "Inventory" \in c.comps
                            THEN (CHOOSE c \in mine : "Inventory" \in c.comps).inventory
                            ELSE @,
            !.item = IF \E c \in mine : c.item # NONE
                       THEN (CHOOSE c \in mine : c.item # NONE).item
                       ELSE @] :
        e \in entities}

\* an object with tile data, of the size of a tile; a rectangle drawn on the map
TileObject(class, name) ==
    [class |-> class, name |-> name, tile |-> TRUE, rect |-> FALSE,
     width |-> SmallTile.width, height |-> SmallTile.height]

RectShape(class, name) ==
    [class |-> class, name |-> name, tile |-> FALSE, rect |-> TRUE,
     width |-> SmallTile.width, height |-> 2 * SmallTile.height]

\* the collision shapes of a tile, with the sizes they declare
Rect(width, height) == [shape |-> "Rect", width |-> width, height |-> height]

Ellipse(width, height) == [shape |-> "Ellipse", width |-> width, height |-> height]

Tileset(image, tile_width, tile_height) ==
    [image |-> image, tile_size |-> [width |-> tile_width, height |-> tile_height]]

\* the cells of a layer: without walls, or with a wall tile whose rectangle
\* is smaller than a tile, a tile with a round shape, a tile with a round
\* and a rectangular shape, and a floor tile
CellLayouts ==
    { << <<>> >>,
      << <<Rect(1, 1)>>, <<Ellipse(2, 2)>>, <<Ellipse(1, 2), Rect(2, 1)>>, <<>> >> }

\* the objects of a map: none; a player, a potion and a portal; a portal,
\* a sign and another portal; portals with all kinds of names
ObjectLayers ==
    { <<>>,
      << TileObject("Player", <<>>),
         TileObject("Collectable", <<"Red potion">>),
         RectShape("Portal", <<"Red potion", ",", "Sword">>) >>,
      << RectShape("Portal", <<"Green potion", ",", "Axe">>),
         RectShape("Sign", <<"Beware">>),
         RectShape("Portal", <<"Blue potion", ",", "Hammer">>) >>,
      << RectShape("Portal", <<"Red potion", ",", "Green potion", ",", "Sword", ",", "Axe">>),
         RectShape("Portal", <<"Sword", ",", " ", "Red potion">>),
         RectShape("Portal", <<"Key", ",", ",", "Hammer", ",">>),
         RectShape("Portal", <<"red potion">>),
         RectShape("Portal", <<>>) >> }

Documents ==
    {[tilesets |-> tilesets, tileLayers |-> 1, cells |-> cells, objects |-> objects] :
        tilesets \in { << Tileset(TRUE, 2, 2) >>,
                       << Tileset(FALSE, 4, 2), Tileset(TRUE, 2, 2) >>,
                       << Tileset(TRUE, 2, 2), Tileset(TRUE, 2, 4) >> },
        cells \in CellLayouts,
        objects \in ObjectLayers}

InitLoad ==
    /\ NoPlayers
    /\ coord = NoCoord
    /\ \E doc \in Documents :
         load = [stage |-> "run", doc |-> doc, asset |-> "loading", loadedAt |-> 0,
                 frame |-> 1, phase |-> "Update", ranNow |-> {}, hasRun |-> {},
                 spawns |-> {}, inserts |-> {}, entities |-> {}]

\* Added<Handle<TiledMap>> as the system sees it
Added(system) == system \notin load.hasRun

\* the asset server publishes the loaded asset before the frame's systems run
AssetLoads ==
    /\ load.stage = "run"
    /\ load.phase = "Update"
    /\ load.ranNow = {}
    /\ load.asset = "loading"
    /\ load' = [load EXCEPT !.asset = "loaded", !.loadedAt = load.frame]
    /\ UNCHANGED <<PlayerVars, coord>>

MapSystem(system, spawns) ==
    /\ load.stage = "run"
    /\ load.phase = "Update"
    /\ system \notin load.ranNow
    /\ load' = [load EXCEPT
                  !.spawns = @ \cup (IF Added(system) /\ load.asset = "loaded"
                                       THEN spawns ELSE {}),
                  !.ranNow = @ \cup {system},
                  !.hasRun = @ \cup {system}]
    /\ UNCHANGED <<PlayerVars, coord>>

ProcessMapLayers ==
    MapSystem("process_map_layers", process_map_layers(load.doc))

ProcessMapCollideables ==
    MapSystem("process_map_collideables", process_map_collideables(load.doc))

ProcessMapObjectSprites ==
    MapSystem("process_map_object_sprites", process_map_object_sprites(load.doc))

ProcessMapObjectShapes ==
    MapSystem("process_map_object_shapes", process_map_object_shapes(load.doc))

ApplyUpdate ==
    /\ load.stage = "run"
    /\ load.phase = "Update"
    /\ load.ranNow = MapSystems
    /\ load' = [load EXCEPT
                  !.entities = Spawned(@, load.spawns),
                  !.spawns = {},
                  !.phase = "PostUpdate",
                  !.ranNow = {}]
    /\ UNCHANGED <<PlayerVars, coord>>

SetupSystem(system, inserts) ==
    /\ load.stage = "run"
    /\ load.phase = "PostUpdate"
    /\ system \notin load.ranNow
    /\ load' = [load EXCEPT
                  !.inserts = @ \cup (IF Added(system) THEN inserts ELSE {}),
                  !.ranNow = @ \cup {system},
                  !.hasRun = @ \cup {system}]
    /\ UNCHANGED <<PlayerVars, coord>>

SetupPlayer == SetupSystem("setup_player", setup_player(load.entities))

SetupPortals == SetupSystem("setup_portals", setup_portals(load.entities))

SetupCollectables == SetupSystem("setup_collectables", setup_collectables(load.entities))

EndFrame ==
    /\ load.stage = "run"
    /\ load.phase = "PostUpdate"
    /\ load.ranNow = SetupSystems
    /\ load' = [load EXCEPT
                  !.entities = Inserted(@, load.inserts),
                  !.inserts = {},
                  !.phase = "Update",
                  !.ranNow = {},
                  !.frame = IF @ < MaxLoadFrames THEN @ + 1 ELSE @]
    /\ UNCHANGED <<PlayerVars, coord>>

\* what the scheduler does every frame
FrameStep ==
    \/ ProcessMapLayers
    \/ ProcessMapCollideables
    \/ ProcessMapObjectSprites
    \/ ProcessMapObjectShapes
    \/ ApplyUpdate
    \/ SetupPlayer
    \/ SetupPortals
    \/ SetupCollectables
    \/ EndFrame

NextLoad ==
    \/ AssetLoads
    \/ FrameStep

SpecLoad == InitLoad /\ [][NextLoad]_vars /\ WF_vars(FrameStep)

MapEntities(doc) ==
    process_map_layers(doc) \cup process_map_collideables(doc)
        \cup process_map_object_sprites(doc) \cup process_map_object_shapes(doc)

Materialized ==
    /\ load.stage = "run"
    /\ {Key(e) : e \in MapEntities(load.doc)} \subseteq {Key(e) : e \in load.entities}

LoadedLate ==
    /\ load.stage = "run"
    /\ load.asset = "loaded"
    /\ load.loadedAt > 1

\* C7: when the asset finishes loading in a later frame than the one in
\* which the map entity was added, the tile layers, footprints, object
\* sprites and shapes of the map are eventually spawned.
C7_LateLoad == LoadedLate ~> Materialized

\* The asset loaded in the second frame; frames later every system has run
\* again and again and the world holds no entity of the map.
C7_LoadedAndBare ==
    /\ LoadedLate
    /\ load.loadedAt = 2
    /\ load.frame = MaxLoadFrames
    /\ load.phase = "PostUpdate"
    /\ load.ranNow = SetupSystems
    /\ load.entities = {}
    /\ MapEntities(load.doc) # {}


(***************************************************************************)
(* The systems with and without a Player entity.                           *)
(***************************************************************************)
\* the six systems that take the player with get_single_mut
SingleSystems ==
    {"input_system_keyboard", "update_player_position", "check_collideable",
     "check_collectable_potion", "check_collectable_weapon", "check_portal"}

\* the last system ran in a frame that had no Player entity
RanWithout == ran # <<>> /\ ran[Len(ran)] \in SingleSystems /\ prev = <<>>

\* the last system ran on the one Player that setup_player marked after a
\* frame without any
RanOnArrived ==
    /\ ran # <<>>
    /\ world.arrivals # <<>>
    /\ Len(prev) = 1
    /\ Len(players) = 1

\* what each system visibly does to the player it ran on
ActedOnArrived ==
    /\ (JustRan("input_system_keyboard") /\ Cardinality(inp.keys) = 1)
         => /\ {players[1].direction} = inp.keys
            /\ players[1].speed = PLAYER_SPEED
    /\ JustRan("update_player_position")
         => /\ prev[1].direction = "Up" =>
                  players[1].y = prev[1].y + inp.amount /\ players[1].x = prev[1].x
            /\ prev[1].direction = "Down" =>
                  players[1].y = prev[1].y - inp.amount /\ players[1].x = prev[1].x
            /\ prev[1].direction = "Left" =>
                  players[1].x = prev[1].x - inp.amount /\ players[1].y = prev[1].y
            /\ prev[1].direction = "Right" =>
                  players[1].x = prev[1].x + inp.amount /\ players[1].y = prev[1].y
    /\ JustRan("check_collideable")
         => \A c \in {world.footprints[i] : i \in 1..Len(world.footprints)} :
                <<prev[1].direction, Collide(prev[1], c)>> \in BlockingPairs
                    => players[1].speed = 0 /\ ~Overlaps(players[1], c)
    /\ JustRan("check_collectable_potion")
         => \A c \in {world.potions[i] : i \in 1..Len(world.potions)} :
                Overlaps(prev[1], c) => players[1].potion = c.kind
    /\ JustRan("check_collectable_weapon")
         => \A c \in {world.weapons[i] : i \in 1..Len(world.weapons)} :
                Overlaps(prev[1], c) => players[1].weapon = c.kind
    /\ JustRan("check_portal")
         => \A q \in {world.portals[i] : i \in 1..Len(world.portals)} :
                Overlaps(prev[1], q) /\ HoldsRequired(prev[1], q)
                    => portalLog # <<>> /\ portalLog[Len(portalLog)] = "pass"

\* C11: in a frame where no Player entity exists, each of the six systems
\* that take the player with get_single_mut changes nothing: there is still
\* no player, nothing is picked up, no portal is tested and the world's
\* entities are as they were; once setup_player has marked exactly one
\* Player, each of the same systems acts on it the next time it runs.
C11_MissingPlayer ==
    /\ [](RanWithout =>
            players = <<>> /\ portalLog = <<>> /\ pickLog = NoPicks)
    /\ [][players = <<>> => world' = world]_vars
    /\ [](RanOnArrived => ActedOnArrived)

\* A frame went by without a player; then the one player that arrived was
\* stopped on the wall by check_collideable.
C11_Witness ==
    /\ frame >= 1
    /\ world.arrivals # <<>>
    /\ Len(prev) = 1
    /\ Len(players) = 1
    /\ JustRan("check_collideable")
    /\ prev[1].speed = PLAYER_SPEED
    /\ players[1].speed = 0
    /\ players[1].y # prev[1].y


(***************************************************************************)
(* What check_portal leaves on the portals.                                *)
(***************************************************************************)
\* C13: every portal carries a boolean entered flag that, after the portal
\* check of a frame, tells whether the player's box overlaps that portal's
\* rectangle now (so it is false again after the first check without
\* overlap).
C13_EnteredFlag ==
    PortalRan =>
        \A k \in 1..Len(world.portals) :
            /\ "entered" \in DOMAIN world.portals[k]
            /\ world.portals[k].entered = Overlaps(players[1], world.portals[k])

\* check_portal has run with the player inside a portal, and the portal is
\* the record it was when it was set up.
C13_InsidePortal ==
    /\ PortalRan
    /\ world.portals # <<>>
    /\ Overlaps(players[1], world.portals[1])
    /\ DOMAIN world.portals[1] = {"x", "y", "w", "h", "hasInventory", "potion", "weapon"}


(***************************************************************************)
(* Overlaps that do not block.                                             *)
(***************************************************************************)
\* C14: in check_collideable, when the player overlaps a footprint and the
\* pair (direction, struck side) is none of the four blocking pairs, which
\* includes direction Stopped and side Inside, that footprint's step leaves
\* the player's position and speed as they were.
C14_NonBlocking ==
    CollideableRan =>
      \A s \in CollideableSteps :
        (/\ Overlaps(s.p, s.c)
         /\ <<s.p.direction, Collide(s.p, s.c)>> \notin BlockingPairs)
          => /\ s.r.x = s.p.x
             /\ s.r.y = s.p.y
             /\ s.r.speed = s.p.speed

\* The player moves left at full speed over the top corner of a footprint,
\* and the step of that footprint has left it alone.
C14_Witness ==
    /\ CollideableRan
    /\ \E s \in CollideableSteps :
         /\ <<s.p.direction, Collide(s.p, s.c)>> = <<"Left", "Top">>
         /\ s.p.speed = PLAYER_SPEED
         /\ s.r = players[1]
         /\ players[1] = prev[1]

\* The player stands still on top of a footprint, box on box.
C14_StoppedInside ==
    /\ CollideableRan
    /\ \E s \in CollideableSteps :
         /\ <<s.p.direction, Collide(s.p, s.c)>> = <<"Stopped", "Inside">>
         /\ s.r = s.p


(***************************************************************************)
(* Several keys held at once.                                              *)
(***************************************************************************)
\* the order in which input_system_keyboard is said to test the keys
KeyOrder == <<"Up", "Down", "Left", "Right">>

KeyPlaces(keys) == {i \in 1..Len(KeyOrder) : KeyOrder[i] \in keys}

FirstChecked(keys) ==
    KeyOrder[CHOOSE i \in KeyPlaces(keys) : \A j \in KeyPlaces(keys) : i <= j]

LastChecked(keys) ==
    KeyOrder[CHOOSE i \in KeyPlaces(keys) : \A j \in KeyPlaces(keys) : i >= j]

\* input_system_keyboard has just run on the one player with several keys held
SeveralKeysHeld ==
    /\ JustRan("input_system_keyboard")
    /\ Len(prev) = 1
    /\ Len(players) = 1
    /\ Cardinality(inp.keys) > 1

\* C15 as stated: with more than one directional key pressed in a frame,
\* the direction becomes the key tested last in the order Up, Down, Left,
\* Right, and the speed PLAYER_SPEED.
C15_LastCheckedWins ==
    SeveralKeysHeld =>
        /\ players[1].direction = LastChecked(inp.keys)
        /\ players[1].speed = PLAYER_SPEED

\* C15: with more than one directional key pressed in a frame, the
\* direction becomes the pressed key tested first in the order Up, Down,
\* Left, Right, and the speed PLAYER_SPEED; nothing else of the player
\* changes.
C15_FirstCheckedWins ==
    SeveralKeysHeld =>
        /\ players[1].direction = FirstChecked(inp.keys)
        /\ players[1].speed = PLAYER_SPEED
        /\ players[1] = [prev[1] EXCEPT !.direction = players[1].direction,
                                        !.speed = players[1].speed]

\* Down, Left and Right held together by a player that was stopped: it
\* goes down.
C15_Witness ==
    /\ SeveralKeysHeld
    /\ inp.keys = {"Down", "Left", "Right"}
    /\ prev[1].direction = "Stopped"
    /\ players[1].direction = "Down"
    /\ players[1].speed = PLAYER_SPEED


(***************************************************************************)
(* The step of update_player_position.                                     *)
(***************************************************************************)
UpdateRan ==
    /\ JustRan("update_player_position")
    /\ Len(prev) = 1
    /\ Len(players) = 1

\* how far the last system moved the player on each axis
MovedX == players[1].x - prev[1].x

MovedY == players[1].y - prev[1].y

\* C16: update_player_position changes at most one of the player's x and y
\* in a frame, by speed times the elapsed seconds (inp.amount, which has the
\* sign of the speed) along the axis of the direction: Up +y, Down -y,
\* Left -x, Right +x; the other coordinate and everything else of the player
\* stay, and a Stopped player is not moved at all.
C16_IntegrationStep ==
    UpdateRan =>
        /\ MovedX = 0 \/ MovedY = 0
        /\ prev[1].direction = "Stopped" => MovedX = 0 /\ MovedY = 0
        /\ prev[1].direction = "Up" => MovedX = 0 /\ MovedY = inp.amount
        /\ prev[1].direction = "Down" => MovedX = 0 /\ MovedY = -inp.amount
        /\ prev[1].direction = "Left" => MovedX = -inp.amount /\ MovedY = 0
        /\ prev[1].direction = "Right" => MovedX = inp.amount /\ MovedY = 0
        /\ prev[1].speed > 0 => inp.amount >= 0
        /\ prev[1].speed = 0 => inp.amount = 0
        /\ [players[1] EXCEPT !.x = prev[1].x, !.y = prev[1].y] = prev[1]

\* A player going down at full speed has been moved down by the frame's
\* amount, and not sideways.
C16_Witness ==
    /\ UpdateRan
    /\ prev[1].direction = "Down"
    /\ prev[1].speed = PLAYER_SPEED
    /\ inp.amount > 0
    /\ MovedY = -inp.amount
    /\ MovedX = 0


(***************************************************************************)
(* Coasting to a stop.                                                     *)
(***************************************************************************)
\* a frame of the one player is complete: start is the player the frame
\* began with, players the player it ended with, inp what its systems read
FrameDone ==
    /\ pc = Chain[1]
    /\ Len(ran) = Len(Chain)
    /\ Len(start) = 1
    /\ Len(players) = 1

\* in the frame just completed: no key was held; a finger was down; a wall
\* corrected the player; a portal carried it through
NoKeyHeld == inp.keys = {}

Touched == inp.fingers # <<>>

Blocked == Composed(4) # Composed(3)

Traversed == Composed(7) # Composed(6)

AtRest(p) == p.direction = "Stopped" /\ p.speed = 0

\* what a frame of coasting is said to do: a positive speed is lowered by
\* the decrement, and a player at rest stays at rest where it is
CoastingFrame ==
    /\ start[1].speed > 0 => players[1].speed = start[1].speed - COAST_DECREMENT
    /\ AtRest(start[1]) =>
          /\ AtRest(players[1])
          /\ players[1].x = start[1].x
          /\ players[1].y = start[1].y

\* no key is held from this frame on
KeysReleased == Len(players) = 1 /\ frame >= world.keyFrames

C18_RejectionNonBlocking ==
    PortalRan =>
        \A i \in 1..Len(portalLog) :
            (/\ Overlaps(PortalBefore(i), PortalQuery(world.portals)[i])
             /\ ~HoldsRequired(PortalBefore(i), PortalQuery(world.portals)[i]))
              => /\ portalLog[i] = "halt"
                 /\ players[1].x = PortalBefore(i).x
                 /\ players[1].y = PortalBefore(i).y
                 /\ players[1].speed = PortalBefore(i).speed
                 /\ players[1].direction = PortalBefore(i).direction
                 /\ players[1].potion = PortalBefore(i).potion
                 /\ players[1].weapon = PortalBefore(i).weapon

\* A player walking down at full speed into a gate without the potion it
\* asks for is told to halt and goes on as it came.
C18_Witness ==
    /\ PortalRan
    /\ portalLog = <<"halt">>
    /\ Overlaps(prev[1], PortalQuery(world.portals)[1])
    /\ prev[1].weapon = PortalQuery(world.portals)[1].weapon
    /\ prev[1].potion # PortalQuery(world.portals)[1].potion
    /\ prev[1].direction = "Down"
    /\ prev[1].speed = PLAYER_SPEED
    /\ players = prev


(***************************************************************************)
(* Who writes the inventories.                                             *)
(***************************************************************************)
\* the systems of the chain that are no pickup check
NoPickupSystems ==
    {"input_system_keyboard", "input_system_touch", "update_player_position",
     "check_collideable", "check_portal"}

\* the last system ran on the one player
RanOnPlayer == ran # <<>> /\ Len(prev) = 1 /\ Len(players) = 1

\* C19: the player's inventory is changed only by the two pickup checks:
\* the input, integration, collision and portal steps leave both slots as
\* they were, the potion check leaves the weapon slot and the weapon check
\* the potion slot; and the required inventory of a portal stays what it was
\* when the portal was set up.
C19_InventoryOwnership ==
    /\ [](RanOnPlayer =>
            /\ ran[Len(ran)] \in NoPickupSystems =>
                  /\ players[1].potion = prev[1].potion
                  /\ players[1].weapon = prev[1].weapon
            /\ JustRan("check_collectable_potion") =>
                  players[1].weapon = prev[1].weapon
            /\ JustRan("check_collectable_weapon") =>
                  players[1].potion = prev[1].potion)
    /\ [][world'.portals = world.portals]_vars

\* The portal step carried the player through a gate and left it the potion
\* and the weapon that opened the gate.
C19_Witness ==
    /\ RanOnPlayer
    /\ JustRan("check_portal")
    /\ portalLog # <<>>
    /\ portalLog[Len(portalLog)] = "pass"
    /\ players[1].y # prev[1].y
    /\ players[1].potion = prev[1].potion
    /\ players[1].potion # NONE
    /\ players[1].weapon = prev[1].weapon


(***************************************************************************)
(* How many footprints a cell gets.                                        *)
(***************************************************************************)
\* the map's asset was there in the first frame and the commands of that
\* frame's Update have been applied
LoadedAndApplied ==
    /\ load.stage = "run"
    /\ load.asset = "loaded"
    /\ load.loadedAt = 1
    /\ load.phase = "PostUpdate" \/ load.frame > 1

\* the footprints in the world that were made of cell c of the layer
FootprintsOf(c) == {e \in load.entities : e.kind = "footprint" /\ e.index = c}

HasRect(shapes) == \E m \in 1..Len(shapes) : shapes[m].shape = "Rect"

\* C20: for one loaded map, each cell of a finite tile layer whose tile
\* declares a rectangular collision shape has exactly one footprint,
\* however many tilesets the map has and however many frames have gone by,
\* and a cell whose tile declares no shape or only other shapes has none.
C20_OneFootprintPerCell ==
    LoadedAndApplied =>
        \A c \in 1..Len(load.doc.cells) :
            Cardinality(FootprintsOf(c)) = IF HasRect(load.doc.cells[c]) THEN 1 ELSE 0

\* A map of two tilesets, loaded at once: frames later its wall cell has
\* two footprints, one for each tileset.
C20_FootprintPerTileset ==
    /\ LoadedAndApplied
    /\ load.frame = MaxLoadFrames
    /\ Len(load.doc.tilesets) = 2
    /\ Len(load.doc.cells[1]) = 1
    /\ HasRect(load.doc.cells[1])
    /\ {e.tileset : e \in FootprintsOf(1)} = {1, 2}
    /\ Cardinality(FootprintsOf(1)) = 2


(***************************************************************************)
(* A tileset without an image.                                             *)
(***************************************************************************)
\* the entities in the world that were made while tileset i was processed
EntitiesOf(i) == {e \in load.entities : e.tileset = i}

\* C23: for a tileset without an entry in tilemap_textures no tile layer
\* and no object sprite is spawned, and nothing else made from that tileset
\* (no collision footprint either) is in the world, while the tile layers
\* and object sprites of every other tileset of the map are there.
C23_MissingImage ==
    LoadedAndApplied =>
        \A i \in 1..Len(load.doc.tilesets) :
            IF i \in Textured(load.doc)
              THEN \A e \in process_map_layers(load.doc)
                              \cup process_map_object_sprites(load.doc) :
                       e.tileset = i => Key(e) \in {Key(f) : f \in load.entities}
              ELSE EntitiesOf(i) = {}

\* The first tileset of the map has no image: it has no tile layer and no
\* object sprite in the world, the second tileset has its layer, and a
\* footprint made while the first was processed is there.
C23_FootprintOfBareTileset ==
    /\ LoadedAndApplied
    /\ 1 \notin Textured(load.doc)
    /\ 2 \in Textured(load.doc)
    /\ \A e \in EntitiesOf(1) : e.kind \notin {"layer", "object"}
    /\ \E e \in EntitiesOf(2) : e.kind = "layer"
    /\ \E e \in EntitiesOf(1) : e.kind = "footprint"


(***************************************************************************)
(* What the setup systems make of the shapes and objects.                  *)
(***************************************************************************)
\* the map's asset was there in the first frame, and the commands of that
\* frame's setup systems have been applied
LoadedAndSetUp ==
    /\ load.stage = "run"
    /\ load.asset = "loaded"
    /\ load.loadedAt = 1
    /\ load.frame > 1

Shapes == {e \in load.entities : e.kind = "shape"}

\* C24: setup_portals gives the Portal component, and a required inventory
\* when the shape has a name, to every shape whose class is "Portal",
\* whether or not shapes of another class are in the map and wherever
\* they come in the order of the shapes.
C24_EveryPortalShape ==
    LoadedAndSetUp =>
        \A e \in Shapes :
            e.class = "Portal" =>
                /\ "Portal" \in e.comps
                /\ e.name # <<>> => "Inventory" \in e.comps

\* Two portals with a sign between them: the portal before the sign is a
\* Portal with its inventory, the portal after it is a bare shape.
C24_PortalAfterSign ==
    /\ LoadedAndSetUp
    /\ \E e \in Shapes, f \in Shapes, g \in Shapes :
         /\ e.tileset = 1 /\ f.tileset = 1 /\ g.tileset = 1
         /\ e.index < f.index /\ f.index < g.index
         /\ e.class = "Portal" /\ f.class = "Sign" /\ g.class = "Portal"
         /\ e.comps = {"Portal", "Inventory"}
         /\ g.comps = {}


(***************************************************************************)
(* The bounds of the speed.                                                *)
(***************************************************************************)
\* C26: in every reachable state the player's speed is at least 0 and at
\* most PLAYER_SPEED; coasting never takes it below zero, so a run of
\* update_player_position never moves the player by a negative amount,
\* against the direction it has.
C26_SpeedBounds ==
    /\ \A i \in 1..Len(players) :
          players[i].speed >= 0 /\ players[i].speed <= PLAYER_SPEED
    /\ UpdateRan => inp.amount >= 0

\* Let go after running Right, the player has coasted from speed 1 to a
\* speed below zero and update_player_position has just moved it Left.
C26_BackwardStep ==
    /\ UpdateRan
    /\ NoKeyHeld
    /\ prev[1].direction = "Right"
    /\ prev[1].speed = 1 - COAST_DECREMENT
    /\ MovedX < 0
    /\ MovedY = 0


(***************************************************************************)
(* No penetration.                                                         *)
(***************************************************************************)
Footprints == {world.footprints[i] : i \in 1..Len(world.footprints)}

\* how far q lies from p along the direction q travels in
Forward(p, q) ==
    CASE q.direction = "Right" -> q.x - p.x
      [] q.direction = "Left"  -> p.x - q.x
      [] q.direction = "Up"    -> q.y - p.y
      [] q.direction = "Down"  -> p.y - q.y
      [] OTHER -> 0

\* q is p moved along the direction q travels in, and not sideways
AlongTravel(p, q) ==
    /\ Horizontal(q.direction) => q.y = p.y
    /\ Vertical(q.direction) => q.x = p.x
    /\ q.direction = "Stopped" => q.x = p.x /\ q.y = p.y

\* the side of c along the direction p travels in
TravelSide(p, c) == IF Horizontal(p.direction) THEN c.w ELSE c.h

\* the collision step has just run in a frame that began clear of every
\* footprint, all of the player's size, and moved the player forward by
\* less than half a footprint
ClearSmallStep ==
    /\ CollideableRan
    /\ Len(start) = 1
    /\ Footprints # {}
    /\ \A c \in Footprints : SameSize(start[1], c) /\ ~Overlaps(start[1], c)
    /\ AlongTravel(start[1], prev[1])
    /\ Forward(start[1], prev[1]) >= 0
    /\ \A c \in Footprints : 2 * Forward(start[1], prev[1]) < TravelSide(prev[1], c)

\* the moved box overlaps c at a corner: no more on the axis perpendicular
\* to travel than along it
CornerContact(p, c) ==
    Overlaps(p, c) /\ PerpOverlap(p, c) <= TravelDepth(p, c)

\* C27 as stated: if at the start of a frame the player's box overlaps no
\* footprint, the footprints have the player's size and the frame's
\* displacement is smaller than half a footprint, then after the collision
\* step the player's box overlaps no footprint, whatever the direction and
\* the offset on the perpendicular axis, corner contacts included.
C27_AsStated ==
    ClearSmallStep => \A c \in Footprints : ~Overlaps(players[1], c)

\* C27: the same, for every direction and every offset on the perpendicular
\* axis at which the moved box meets no footprint at a corner (it overlaps
\* each footprint it meets more on the perpendicular axis than along
\* travel).
C27_NoPenetration ==
    (ClearSmallStep /\ \A c \in Footprints : ~CornerContact(prev[1], c))
        => \A c \in Footprints : ~Overlaps(players[1], c)

\* Off the axis of a wall, the player stepped into it by less than the
\* boxes overlap sideways, and was put back clear of it.
C27_Witness ==
    /\ ClearSmallStep
    /\ \E c \in Footprints :
         /\ Overlaps(prev[1], c)
         /\ PerpOverlap(prev[1], c) < TravelSide(prev[1], c)
         /\ PerpOverlap(prev[1], c) > TravelDepth(prev[1], c)
         /\ TravelDepth(prev[1], c) = 2
    /\ Vertical(prev[1].direction)
    /\ players[1] # prev[1]
    /\ \A c \in Footprints : ~Overlaps(players[1], c)


(***************************************************************************)
(* The entities of the objects of a map.                                   *)
(***************************************************************************)
\* the objects of the map that have tile data, and those of class "Player"
SpriteObjects == {j \in 1..Len(load.doc.objects) : load.doc.objects[j].tile}

PlayerObjects == {j \in SpriteObjects : load.doc.objects[j].class = "Player"}

\* the entities in the world that were made of object j
ObjectEntities(j) == {e \in load.entities : e.kind = "object" /\ e.index = j}

PlayerEntities == {e \in load.entities : "Player" \in e.comps}

\* C28: once a map is materialized, each object with tile data is in the
\* world as exactly one entity, however many tilesets the map has; so of a
\* map with one object of class "Player" there is, once setup_player has
\* run, exactly one Player entity, with an empty Inventory and the Moveable
\* of Moveable::new (speed 0, Stopped).
C28_OneEntityPerObject ==
    LoadedAndSetUp =>
        /\ \A j \in SpriteObjects : Cardinality(ObjectEntities(j)) = 1
        /\ Cardinality(PlayerObjects) = 1 =>
              /\ Cardinality(PlayerEntities) = 1
              /\ \A e \in PlayerEntities :
                    /\ e.kind = "object"
                    /\ e.index \in PlayerObjects
                    /\ {"Inventory", "Moveable"} \subseteq e.comps
                    /\ e.inventory = EmptyInventory

\* Of the one Player object of a map with two tilesets, both with an image,
\* there are two Player entities, one made while each tileset was processed.
C28_TwoPlayers ==
    /\ LoadedAndSetUp
    /\ Len(load.doc.tilesets) = 2
    /\ Cardinality(PlayerObjects) = 1
    /\ Cardinality(PlayerEntities) = 2
    /\ {e.tileset : e \in PlayerEntities} = {1, 2}
    /\ \A e \in PlayerEntities :
          e.index \in PlayerObjects /\ e.inventory = EmptyInventory


(***************************************************************************)
(* The requirement of a portal, read from its name.                        *)
(***************************************************************************)
PotionWords == {"Green potion", "Red potion", "Blue potion"}

\* the places of the tokens of a name that are exactly one of the words
Matching(tokens, words) == {n \in 1..Len(tokens) : tokens[n] \in words}

Last(places) == CHOOSE n \in places : \A m \in places : m <= n

NamedPortals ==
    {e \in load.entities : e.kind = "shape" /\ "Portal" \in e.comps /\ e.name # <<>>}

\* C29: of a Portal shape with a name, split on ",", the required potion is
\* the last token that is exactly "Green potion", "Red potion" or "Blue
\* potion" and the required weapon the last token that is exactly "Hammer",
\* "Axe" or "Sword"; a category without such a token stays empty, and the
\* other tokens change nothing.
C29_PortalRequirement ==
    LoadedAndSetUp =>
        \A e \in NamedPortals :
            LET tokens == split(e.name)
                potions == Matching(tokens, PotionWords)
                weapons == Matching(tokens, Weapons)
            IN  /\ "Inventory" \in e.comps
                /\ e.inventory.potion =
                      IF potions = {} THEN NONE ELSE PotionNamed(tokens[Last(potions)])
                /\ e.inventory.weapon =
                      IF weapons = {} THEN NONE ELSE tokens[Last(weapons)]

\* Five portals: two potions and two weapons named, the later of each
\* required; a potion after a blank, not a word, beside a sword; a hammer
\* among unknown and empty tokens; a potion in small letters, nothing
\* required; and a portal without a name, without an Inventory.
C29_Witness ==
    /\ LoadedAndSetUp
    /\ \E e \in NamedPortals :
         /\ split(e.name) = <<"Red potion", "Green potion", "Sword", "Axe">>
         /\ e.inventory = [potion |-> "Green", weapon |-> "Axe"]
    /\ \E e \in NamedPortals :
         /\ Len(split(e.name)) = 2
         /\ split(e.name)[1] = "Sword"
         /\ e.inventory = [potion |-> NONE, weapon |-> "Sword"]
    /\ \E e \in NamedPortals :
         /\ split(e.name) = <<"Key", "", "Hammer", "">>
         /\ e.inventory = [potion |-> NONE, weapon |-> "Hammer"]
    /\ \E e \in NamedPortals :
         /\ split(e.name) = <<"red potion">>
         /\ e.inventory = EmptyInventory
    /\ \E e \in load.entities :
         /\ e.kind = "shape"
         /\ e.name = <<>>
         /\ e.comps = {"Portal"}


(***************************************************************************)
(* The extent of a footprint.                                              *)
(***************************************************************************)
LoadedFootprints == {e \in load.entities : e.kind = "footprint"}

\* the collision rectangle footprint e was made of
RectOf(e) == load.doc.cells[((e.index - 1) % Len(load.doc.cells)) + 1][e.part]

\* C30: every footprint has the width and the height of the scaled tile
\* size (tile size times SCALE) of the tileset that was being processed
\* when it was spawned, whatever width and height the collision rectangle
\* of its tile declares.
C30_FootprintExtent ==
    \A e \in LoadedFootprints :
        /\ e.size.width = load.doc.tilesets[e.tileset].tile_size.width * SCALE
        /\ e.size.height = load.doc.tilesets[e.tileset].tile_size.height * SCALE

\* Two footprints of one collision rectangle that is smaller than a tile:
\* each has the scaled tile size of its tileset, one a square of side 6 and
\* the other 6 wide and 12 high, neither the size of the rectangle.
C30_Witness ==
    \E e \in LoadedFootprints, f \in LoadedFootprints :
        /\ e.index = f.index /\ e.part = f.part
        /\ e.tileset = 1 /\ f.tileset = 2
        /\ RectOf(e).shape = "Rect"
        /\ RectOf(e).width = 1 /\ RectOf(e).height = 1
        /\ e.size = [width |-> 6, height |-> 6]
        /\ f.size = [width |-> 6, height |-> 12]

====
